---- MODULE Spec2Model ----
(***************************************************************************)
(* Model of jlrickert/go-std: the jail path resolver                       *)
(* (pkg/filepath_jail.go), the in-memory TestEnv (pkg/env_testenv.go),     *)
(* the Process / Pipeline harness and AtomicWriteFile (pkg/fs.go).         *)
(*                                                                         *)
(* A Go string that holds a path is modelled as a record                   *)
(*   [abs |-> leading separator?, segs |-> the separator-split elements]   *)
(* so "" is [FALSE, <<>>], "/" is [TRUE, <<>>], "." is [FALSE, <<".">>].   *)
(* Repeated and trailing separators are not represented (filepath.Clean    *)
(* removes them first thing).  The target platform is Unix-like.           *)
(***************************************************************************)
EXTENDS Integers, Sequences, FiniteSets, TLC

VARIABLES
    jailArg,    \* SpecJail: the jail argument of the call under test
    pathArg,    \* SpecJail: the path argument of the call under test
    jailRes,    \* SpecJail: the result of the last applied function
    heap,       \* TestEnv: the Go maps, by identity (map id -> key -> value)
    envs,       \* TestEnv: the TestEnv structs (env id -> fields)
    osenv,      \* the real process environment (os.Setenv / os.Getenv)
    stages,     \* Pipeline.stages: per stage its runner and its Process setup
    ppc,        \* Pipeline.Run: where the calling goroutine stands
    proc,       \* per stage: the goroutine running Process.Run
    pipe,       \* per stage: the io.Pipe behind its StdoutPipe
    errCh,      \* Pipeline.Run: the buffered channel of stage errors
    result,     \* Pipeline.Run: the PipelineResult returned
    stdin,      \* Process.Write / Close against Process.Run: one Process
    ctx,        \* RunWithTimeout: the context with the deadline
    spipe,      \* Process.StdoutPipe: one Process and the goroutines calling it
    files,      \* AtomicWriteFile: the files on disk (name -> file)
    aw,         \* AtomicWriteFile: the call in progress
    disk        \* the real locations at which os.WriteFile has created a file

vars == <<jailArg, pathArg, jailRes, heap, envs, osenv,
          stages, ppc, proc, pipe, errCh, result, stdin, ctx,
          spipe, files, aw, disk>>

pipeVars == <<stages, ppc, proc, pipe, errCh, result, stdin, ctx, spipe>>
fileVars == <<files, aw, disk>>

jailVars == <<jailArg, pathArg, jailRes>>
envVars == <<heap, envs, osenv>>

(***************************************************************************)
(* Bounds                                                                  *)
(***************************************************************************)
MaxLen == 3          \* longest raw path (in elements) given to the resolver
MaxDepth == 3        \* deepest directory that exists on the real file system
NumStages == 2       \* most stages in a Pipeline
MaxBytes == 2        \* most bytes a runner writes to its output
MaxData == 2         \* most bytes AtomicWriteFile is given to write

(***************************************************************************)
(* Strings and paths                                                       *)
(***************************************************************************)
Str(s) == [abs |-> FALSE, segs |-> <<s>>]
Rooted(ss) == [abs |-> TRUE, segs |-> ss]
Relative(ss) == [abs |-> FALSE, segs |-> ss]
EmptyStr == [abs |-> FALSE, segs |-> <<>>]
RootStr == [abs |-> TRUE, segs |-> <<>>]
DotStr == [abs |-> FALSE, segs |-> <<".">>]

\* Element names used in inputs.  "..foo" is an ordinary file name whose
\* first two bytes are dots; "jailbreak" has "jail" as a string prefix.
SegNames == {"jail", "jailbreak", "a", "..foo"}
RawSegs == SegNames \cup {".", ".."}

\* strings.HasPrefix(name, "..") over the names of the model
DotDotPrefixed(name) == name \in {"..", "..foo"}

SeqsUpTo(S, n) == UNION {[1..k -> S] : k \in 0..n}

IsPrefixSeq(s, t) == Len(s) <= Len(t) /\ SubSeq(t, 1, Len(s)) = s

\* filepath.IsAbs on Unix: the string starts with the separator
IsAbs(p) == p.abs

RECURSIVE CleanStack(_, _, _)
\* filepath.Clean's element loop: drop ".", let ".." cancel the previous
\* element, drop ".." at the root, keep leading ".." of a relative path.
CleanStack(abs, segs, acc) ==
    IF segs = <<>> THEN acc
    ELSE LET s == Head(segs)
             rest == Tail(segs)
         IN IF s = "." THEN CleanStack(abs, rest, acc)
            ELSE IF s = ".."
                 THEN IF acc /= <<>> /\ acc[Len(acc)] /= ".."
                      THEN CleanStack(abs, rest, SubSeq(acc, 1, Len(acc) - 1))
                      ELSE IF abs THEN CleanStack(abs, rest, acc)
                           ELSE CleanStack(abs, rest, Append(acc, ".."))
                 ELSE CleanStack(abs, rest, Append(acc, s))

\* filepath.Clean: the empty result of a relative path is "."
Clean(p) ==
    LET out == CleanStack(p.abs, p.segs, <<>>)
    IN IF ~p.abs /\ out = <<>> THEN DotStr
       ELSE [abs |-> p.abs, segs |-> out]

\* filepath.Join(a, b): empty elements are ignored, the rest are joined with
\* the separator and cleaned; only the first non-empty element can make the
\* result rooted.
Join(a, b) ==
    IF a = EmptyStr /\ b = EmptyStr THEN EmptyStr
    ELSE IF a = EmptyStr THEN Clean(b)
    ELSE IF b = EmptyStr THEN Clean(a)
    ELSE Clean([abs |-> a.abs, segs |-> a.segs \o b.segs])

RECURSIVE CommonLen(_, _)
\* number of leading elements two element lists share
CommonLen(b, t) ==
    IF b = <<>> \/ t = <<>> THEN 0
    ELSE IF Head(b) = Head(t) THEN 1 + CommonLen(Tail(b), Tail(t))
    ELSE 0

RECURSIVE DotDots(_)
DotDots(n) == IF n = 0 THEN <<>> ELSE <<"..">> \o DotDots(n - 1)

\* filepath.Rel after the common leading elements are counted: bsegs and
\* tsegs are the elements of the cleaned base and target, k how many of the
\* leading ones they share
RelFrom(bsegs, tsegs, k) ==
    IF k < Len(bsegs) /\ k < Len(tsegs) /\ bsegs[k + 1] = ".."
    THEN [err |-> TRUE, path |-> EmptyStr]
    ELSE IF k < Len(bsegs)
         THEN [err |-> FALSE,
               path |-> Relative(DotDots(Len(bsegs) - k)
                                 \o SubSeq(tsegs, k + 1, Len(tsegs)))]
    ELSE [err |-> FALSE, path |-> Relative(SubSeq(tsegs, k + 1, Len(tsegs)))]

\* filepath.Rel on the cleaned base and target
RelClean(base, targ) ==
    IF targ = base THEN [err |-> FALSE, path |-> DotStr]
    ELSE IF base.abs /= targ.abs THEN [err |-> TRUE, path |-> EmptyStr]
    ELSE RelFrom(IF base = DotStr THEN <<>> ELSE base.segs, targ.segs,
                 CommonLen(IF base = DotStr THEN <<>> ELSE base.segs, targ.segs))

\* filepath.Rel(base, targ) on Unix.  Returns [err, path].
Rel(basepath, targpath) == RelClean(Clean(basepath), Clean(targpath))

\* strings.HasPrefix(rel, ".."): the string's first two bytes are dots
HasDotDotPrefix(p) == ~p.abs /\ p.segs /= <<>> /\ DotDotPrefixed(p.segs[1])

(***************************************************************************)
(* pkg/filepath_jail.go                                                    *)
(***************************************************************************)
\* IsInJail from the Rel call on: r is what filepath.Rel returned
NotOutside(r) == IF r.err THEN FALSE ELSE ~HasDotDotPrefix(r.path)

IsInJail(jail, rel) ==
    IF jail = EmptyStr THEN TRUE
    ELSE IF ~IsAbs(Clean(rel)) THEN TRUE
    ELSE NotOutside(Rel(Clean(jail), Clean(rel)))

\* EnsureInJail as it would be if it cleaned the path before the jail test
EnsureInJail_cleaning(jail, p) ==
    IF jail = EmptyStr THEN Clean(p)
    ELSE IF p = EmptyStr \/ p = RootStr THEN Clean(jail)
    ELSE IF IsInJail(Clean(jail), Clean(p)) THEN Clean(p)
    ELSE Join(Clean(jail), Clean(p))

EnsureInJail(jail, p) ==
    IF jail = EmptyStr THEN p
    ELSE IF p = EmptyStr \/ p = RootStr THEN Clean(jail)
    ELSE IF IsInJail(Clean(jail), Clean(p)) THEN Clean(p)
    ELSE Join(Clean(jail), Clean(p))

\* filepath.FromSlash is the identity where the separator is the slash
EnsureInJailFor(jail, p) == EnsureInJail(jail, p)

\* RemoveJailPrefix: the path as seen from inside the jail
\* RemoveJailPrefix from the Rel call on: p is the cleaned path
Unrooted(p, r) == IF r.err THEN p ELSE Join(RootStr, r.path)

RemoveJailPrefix(jail, path) ==
    Unrooted(Clean(path), Rel(Clean(jail), Clean(path)))

(***************************************************************************)
(* SpecJail: the resolver's pure functions applied to bounded inputs       *)
(***************************************************************************)
JailInputs ==
    {EmptyStr, RootStr, Rooted(<<"jail">>), Rooted(<<"jail", "a">>), Str("jail")}

PathInputs ==
    {[abs |-> b, segs |-> ss] : b \in BOOLEAN, ss \in SeqsUpTo(RawSegs, MaxLen)}

\* op: the call made; arg: the path it was given; path, ok: what it returned
NoResult == [op |-> "none", arg |-> EmptyStr, path |-> EmptyStr, ok |-> FALSE]

\* values of the TestEnv variables while another specification runs
IdleHeap == <<>>
IdleEnvs == <<>>
IdleOsEnv == <<>>

\* the variables of the other specifications, at rest
\* context.Background(): never done.  late is the set of stages that had
\* not finished when the deadline passed (empty while it has not).
Background == [done |-> FALSE, late |-> {}]

JailIdle == jailArg = EmptyStr /\ pathArg = EmptyStr /\ jailRes = NoResult
EnvIdle == heap = IdleHeap /\ envs = IdleEnvs /\ osenv = IdleOsEnv
PipeIdle ==
    /\ stages = <<>>
    /\ ppc = "idle"
    /\ proc = <<>>
    /\ pipe = <<>>
    /\ errCh = <<>>
    /\ result = <<>>
    /\ stdin = <<>>
    /\ ctx = Background
    /\ spipe = <<>>

FileIdle == files = <<>> /\ aw = <<>> /\ disk = {}

InitJail ==
    /\ jailArg \in JailInputs
    /\ pathArg \in PathInputs
    /\ jailRes = NoResult
    /\ EnvIdle
    /\ PipeIdle
    /\ FileIdle

CallIsInJail ==
    /\ jailRes.op = "none"
    /\ jailRes' = [op |-> "IsInJail", arg |-> pathArg, path |-> pathArg,
                   ok |-> IsInJail(jailArg, pathArg)]
    /\ UNCHANGED <<jailArg, pathArg, envVars, pipeVars, fileVars>>

CallEnsureInJail ==
    /\ jailRes.op = "none"
    /\ jailRes' = [op |-> "EnsureInJail", arg |-> pathArg,
                   path |-> EnsureInJail(jailArg, pathArg), ok |-> TRUE]
    /\ UNCHANGED <<jailArg, pathArg, envVars, pipeVars, fileVars>>

\* EnsureInJail(jail, q) for the q a first EnsureInJail(jail, p) returned
CallEnsureInJailAgain ==
    /\ jailRes.op = "EnsureInJail"
    /\ jailRes' = [op |-> "EnsureInJailAgain", arg |-> jailRes.path,
                   path |-> EnsureInJail(jailArg, jailRes.path), ok |-> TRUE]
    /\ UNCHANGED <<jailArg, pathArg, envVars, pipeVars, fileVars>>

CallRemoveJailPrefix ==
    /\ jailRes.op = "none"
    /\ jailRes' = [op |-> "RemoveJailPrefix", arg |-> pathArg,
                   path |-> RemoveJailPrefix(jailArg, pathArg), ok |-> TRUE]
    /\ UNCHANGED <<jailArg, pathArg, envVars, pipeVars, fileVars>>

\* RemoveJailPrefix(jail, q) for the q EnsureInJail(jail, p) returned
CallRemoveJailPrefixOfResult ==
    /\ jailRes.op = "EnsureInJail"
    /\ jailRes' = [op |-> "RoundTrip", arg |-> jailRes.path,
                   path |-> RemoveJailPrefix(jailArg, jailRes.path), ok |-> TRUE]
    /\ UNCHANGED <<jailArg, pathArg, envVars, pipeVars, fileVars>>

NextJail ==
    \/ CallIsInJail
    \/ CallEnsureInJail
    \/ CallEnsureInJailAgain
    \/ CallRemoveJailPrefix
    \/ CallRemoveJailPrefixOfResult

SpecJail == InitJail /\ [][NextJail]_vars

\* C2: for every jail j and path p, IsInJail(j, EnsureInJail(j, p)) is true.
C2_ContainmentTotality ==
    jailRes.op = "EnsureInJail" => IsInJail(jailArg, jailRes.path)

\* the element-by-element containment the resolver is meant to compute:
\* the cleaned path has the cleaned jail's elements as its leading elements
SegmentContained(jail, path) ==
    LET j == Clean(jail)
        p == Clean(path)
    IN j.abs = p.abs /\ IsPrefixSeq(j.segs, p.segs)

\* C3: for a non-empty jail and an absolute path, IsInJail is true exactly
\* when the cleaned path equals the cleaned jail or extends it element by
\* element, whatever the names of the further elements.
C3_SegmentwiseContainment ==
    (jailRes.op = "IsInJail" /\ jailArg /= EmptyStr /\ IsAbs(pathArg))
        => (jailRes.ok <=> SegmentContained(jailArg, pathArg))

\* C14: EnsureInJail is idempotent: for every jail j and path p,
\* EnsureInJail(j, EnsureInJail(j, p)) equals EnsureInJail(j, p).
C14_EnsureInJailIdempotent ==
    jailRes.op = "EnsureInJailAgain" => jailRes.path = jailRes.arg

\* C15: for a non-empty jail and a relative path p, EnsureInJail returns the
\* jail joined with p; under an absolute jail the result is absolute, and
\* beneath the jail when p does not climb with "..".
C15_RelativeJoinedOntoJail ==
    (jailRes.op = "EnsureInJail" /\ jailArg /= EmptyStr /\ ~IsAbs(jailRes.arg)) =>
        /\ jailRes.path = Join(jailArg, jailRes.arg)
        /\ IsAbs(jailArg) => IsAbs(jailRes.path)
        /\ (IsAbs(jailArg) /\ ~HasDotDotPrefix(Clean(jailRes.arg)))
              => SegmentContained(jailArg, jailRes.path)

\* C16: for a non-empty jail and an absolute path p, EnsureInJail returns the
\* cleaned p when p is contained in the jail and the jail joined with all of
\* p's components otherwise; an empty p returns the jail.
C16_AbsoluteKeptOrRerooted ==
    (jailRes.op = "EnsureInJail" /\ jailArg /= EmptyStr) =>
        /\ jailRes.arg = EmptyStr => jailRes.path = Clean(jailArg)
        /\ IsAbs(jailRes.arg) =>
              jailRes.path = IF SegmentContained(jailArg, jailRes.arg)
                             THEN Clean(jailRes.arg)
                             ELSE Join(Clean(jailArg), Clean(jailRes.arg))

\* C17: with an empty jail IsInJail is true for every path and EnsureInJail
\* returns the path exactly as given, absolute or relative.
C17_EmptyJailPassThrough ==
    jailArg = EmptyStr =>
        /\ jailRes.op = "IsInJail" => jailRes.ok
        /\ jailRes.op = "EnsureInJail" => jailRes.path = jailRes.arg

C17_Witness ==
    /\ jailArg = EmptyStr
    /\ jailRes.op = "EnsureInJail"
    /\ jailRes.arg = Relative(<<"a", "..", "..">>)
    /\ jailRes.path = jailRes.arg

\* C18: RemoveJailPrefix with an empty jail returns the path unchanged, for
\* relative as well as absolute paths.
C18_EmptyJailPrefixUnchanged ==
    (jailRes.op = "RemoveJailPrefix" /\ jailArg = EmptyStr) =>
        jailRes.path = jailRes.arg

\* the components of q that follow the components of the jail
AfterJail(jail, q) ==
    SubSeq(q.segs, Len(Clean(jail).segs) + 1, Len(q.segs))

\* C19: for a non-empty jail j and a path p, RemoveJailPrefix(j,
\* EnsureInJail(j, p)) is an absolute path made of exactly the components of
\* EnsureInJail(j, p) that follow the jail's components.
C19_RoundTripStripsJail ==
    (jailRes.op = "RoundTrip" /\ jailArg /= EmptyStr) =>
        /\ IsAbs(jailRes.path)
        /\ IsPrefixSeq(Clean(jailArg).segs, jailRes.arg.segs)
        /\ jailRes.path.segs = AfterJail(jailArg, jailRes.arg)

(***************************************************************************)
(* TestEnv.  The repository holds two versions of the type:                *)
(*   impl "jailed"  - pkg/env_testenv.go: values are stored and returned   *)
(*                    with the jail prefix (EnsureInJailFor everywhere);   *)
(*   impl "virtual" - the later version with ResolvePath and GetJail:      *)
(*                    GetHome strips the jail prefix, SetHome resolves     *)
(*                    against the file system.                             *)
(* A TestEnv struct is a record; its data field is the identity of a Go    *)
(* map held in heap, so that two structs can share one map.                *)
(***************************************************************************)
Impls == {"jailed", "virtual"}

\* m.data[key]: the zero value for a missing key
Lookup(d, k) == IF k \in DOMAIN d THEN d[k] ELSE EmptyStr

\* Store as it would be if an empty value were not stored
Store_skippingEmpty(d, k, v) ==
    IF v = EmptyStr THEN d
    ELSE [x \in DOMAIN d \cup {k} |-> IF x = k THEN v ELSE d[x]]

\* m.data[key] = value
Store(d, k, v) == [x \in DOMAIN d \cup {k} |-> IF x = k THEN v ELSE d[x]]

\* delete(m.data, key)
Delete(d, k) == [x \in DOMAIN d \ {k} |-> d[x]]

Ok(v) == [err |-> FALSE, val |-> v]
Fail == [err |-> TRUE, val |-> EmptyStr]

\* outcomes of filepath.EvalSymlinks on the real file system: the path does
\* not exist, or it exists and holds no symbolic link.  Nothing deeper than
\* MaxDepth exists.
FsOutcomes == {"enoent", "plain"}

EvalSymlinks(path, fs) ==
    IF fs = "enoent" \/ Len(Clean(path).segs) > MaxDepth THEN Fail
    ELSE Ok(Clean(path))

GetHome(e) ==
    IF e.home = EmptyStr THEN Fail
    ELSE IF e.impl = "jailed" THEN Ok(e.home)
    ELSE Ok(RemoveJailPrefix(e.jail, e.home))

GetUser(e) == IF e.user = EmptyStr THEN Fail ELSE Ok(e.user)

Getwd(e, d) == IF Lookup(d, "PWD") /= EmptyStr THEN Ok(Lookup(d, "PWD")) ELSE Fail

Get(e, d, key) ==
    IF key = "HOME" THEN e.home
    ELSE IF key = "USER" THEN e.user
    ELSE Lookup(d, key)

Has(d, key) == key \in DOMAIN d

\* p[0] == '~'
StartsWithTilde(p) ==
    ~p.abs /\ p.segs /= <<>> /\ p.segs[1] \in {"~", "~bob", "~\\a"}

\* SimpleTilde as it would be if every leading tilde were expanded
SimpleTilde_anyUser(p) == StartsWithTilde(p)

\* p == "~" || strings.HasPrefix(p, "~/") || strings.HasPrefix(p, `~\`)
SimpleTilde(p) == ~p.abs /\ p.segs /= <<>> /\ p.segs[1] \in {"~", "~\\a"}

\* p[2:] of a path in one of the simple forms: what follows "~/" or `~\`
AfterTilde(p) ==
    IF p.segs[1] = "~" THEN Relative(Tail(p.segs))
    ELSE Relative(<<"a">> \o Tail(p.segs))

ExpandPath(e, p) ==
    IF p = EmptyStr THEN p
    ELSE IF ~StartsWithTilde(p) THEN p
    ELSE IF SimpleTilde(p)
         THEN IF p = Str("~") THEN Clean(GetHome(e).val)
              ELSE Join(GetHome(e).val, AfterTilde(p))
    ELSE p

\* ResolvePath of the "virtual" version
\* ResolvePath from the EvalSymlinks call on
Resolved(e, resolved) ==
    IF resolved.err THEN Fail ELSE Ok(RemoveJailPrefix(e.jail, resolved.val))

\* ResolvePath from the ExpandPath call on; wd is what m.Getwd() returns
ResolveExpanded(e, expanded, wd, fs) ==
    IF IsAbs(expanded) THEN Resolved(e, EvalSymlinks(expanded, fs))
    ELSE IF wd.err THEN Fail
    ELSE Resolved(e, EvalSymlinks(Join(wd.val, expanded), fs))

ResolvePath(e, d, rel, fs) ==
    IF Clean(rel) = DotStr THEN Getwd(e, d)
    ELSE ResolveExpanded(e, ExpandPath(e, rel), Getwd(e, d), fs)

GetTempDir(e, d) ==
    LET first == IF Lookup(d, "TMPDIR") /= EmptyStr THEN Lookup(d, "TMPDIR")
                 ELSE IF Lookup(d, "TEMP") /= EmptyStr THEN Lookup(d, "TEMP")
                 ELSE IF Lookup(d, "TMP") /= EmptyStr THEN Lookup(d, "TMP")
                 ELSE Rooted(<<"tmp">>)
    IN IF e.impl = "jailed" THEN EnsureInJailFor(e.jail, first) ELSE first

\* The mutating methods return the struct and the map as they are left.
Upd(e, d) == [env |-> e, map |-> d]

\* m.home = home; m.data["HOME"] = home
StoreHome(e, d, home) == Upd([e EXCEPT !.home = home], Store(d, "HOME", home))

\* SetHome of the "virtual" version from the ResolvePath call on
SetResolvedHome(e, d, r) ==
    IF r.err THEN Upd(e, d) ELSE StoreHome(e, d, Join(e.jail, r.val))

SetHome(e, d, home, fs) ==
    IF e.impl = "jailed"
    THEN StoreHome(e, d, EnsureInJailFor(e.jail, home))
    ELSE SetResolvedHome(e, d, ResolvePath(e, d, home, fs))

SetUser(e, d, username) ==
    Upd([e EXCEPT !.user = username], Store(d, "USER", username))

Setwd(e, d, dir) ==
    IF e.impl = "jailed"
    THEN Upd(e, Store(d, "PWD", EnsureInJailFor(e.jail, ExpandPath(e, dir))))
    ELSE Upd(e, Store(d, "PWD", ExpandPath(e, dir)))

Set(e, d, key, value, fs) ==
    IF key = "HOME" THEN SetHome(e, d, value, fs)
    ELSE IF key = "USER" THEN SetUser(e, d, value)
    ELSE IF key = "PWD" THEN Setwd(e, d, value)
    ELSE Upd(e, Store(d, key, value))

Unset(e, d, key) ==
    IF key = "HOME" THEN Upd([e EXCEPT !.home = EmptyStr], Delete(d, "HOME"))
    ELSE IF key = "USER" THEN Upd([e EXCEPT !.user = EmptyStr], Delete(d, "USER"))
    ELSE Upd(e, Delete(d, key))

\* NewTestEnv(jail, home, username), the Unix branch; mapId is the new map
NewTestEnv(impl, jail, home, username, mapId) ==
    LET user == IF username = EmptyStr THEN Str("testuser") ELSE username
        dflt == IF user = Str("root") THEN Join(RootStr, Str(".root"))
                ELSE Join(RootStr, Join(Str("home"), user))
        h == IF impl = "jailed"
             THEN EnsureInJailFor(jail, IF home = EmptyStr THEN dflt ELSE home)
             ELSE IF home = EmptyStr THEN dflt ELSE home
        cwd == IF impl = "jailed" THEN h
               ELSE IF home = EmptyStr /\ user = Str("root") THEN RootStr ELSE h
        d == [k \in {"HOME", "USER", "PWD", "XDG_CONFIG_HOME", "XDG_CACHE_HOME",
                     "XDG_DATA_HOME", "XDG_STATE_HOME", "TMPDIR"} |->
                 IF k = "HOME" THEN h
                 ELSE IF k = "USER" THEN username
                 ELSE IF k = "PWD" THEN cwd
                 ELSE IF k = "XDG_CONFIG_HOME" THEN Join(h, Str(".config"))
                 ELSE IF k = "XDG_CACHE_HOME" THEN Join(h, Str(".cache"))
                 ELSE IF k = "XDG_DATA_HOME" THEN Join(h, Relative(<<".local", "share">>))
                 ELSE IF k = "XDG_STATE_HOME" THEN Join(h, Relative(<<".local", "state">>))
                 ELSE Join(jail, Str("tmp"))]
    IN Upd([impl |-> impl, jail |-> jail, home |-> h, user |-> username,
            data |-> mapId], d)

\* Clone: a new struct and a new map holding the entries of the old one.
\* The "virtual" version's struct literal does not list jail.
Clone(e, d, mapId) ==
    Upd([impl |-> e.impl,
         jail |-> IF e.impl = "jailed" THEN e.jail ELSE EmptyStr,
         home |-> e.home, user |-> e.user, data |-> mapId], d)

(***************************************************************************)
(* SpecEnv: one TestEnv next to the real process environment               *)
(***************************************************************************)
EmptyMap == [x \in {} |-> EmptyStr]
NilEnv == [impl |-> "nil", jail |-> EmptyStr, home |-> EmptyStr,
           user |-> EmptyStr, data |-> 0]

EnvJails == {Rooted(<<"jail">>), EmptyStr}
InitHomes == {EmptyStr, Rooted(<<"h">>)}
InitUsers == {EmptyStr, Str("root")}
PathKeys == {"HOME", "PWD", "TMPDIR"}
PathValues == {EmptyStr, Rooted(<<"..foo">>), Rooted(<<"jail", "a">>), Str("a"), Str("~")}
UserValues == {EmptyStr, Str("bob")}
OsKeys == {"K"}
OsValues == {Str("os-value"), Str("a")}

Live(i) == envs[i].impl /= "nil"
DataOf(i) == heap[envs[i].data]

\* write back the struct and the map a method has left
Apply(i, r) ==
    /\ envs' = [envs EXCEPT ![i] = r.env]
    /\ heap' = [heap EXCEPT ![envs[i].data] = r.map]

\* a TestEnv as NewTestEnv returns it; no second struct yet
InitOneEnv ==
    \E impl \in Impls, jail \in EnvJails, home \in InitHomes, u \in InitUsers :
        LET r == NewTestEnv(impl, jail, home, u, 1)
        IN /\ envs = [i \in {1, 2} |-> IF i = 1 THEN r.env ELSE NilEnv]
           /\ heap = [m \in {1, 2} |-> IF m = 1 THEN r.map ELSE EmptyMap]

InitEnv ==
    /\ InitOneEnv
    /\ osenv = EmptyMap
    /\ JailIdle
    /\ PipeIdle
    /\ FileIdle

\* TestEnvSet as it would be if Set also exported the variable to the process
TestEnvSet_exporting(i, key, value, fs) ==
    /\ Live(i)
    /\ Apply(i, Set(envs[i], DataOf(i), key, value, fs))
    /\ osenv' = Store(osenv, key, value)
    /\ UNCHANGED <<jailVars, pipeVars, fileVars>>

TestEnvSet(i, key, value, fs) ==
    /\ Live(i)
    /\ Apply(i, Set(envs[i], DataOf(i), key, value, fs))
    /\ UNCHANGED <<osenv, jailVars, pipeVars, fileVars>>

TestEnvUnset(i, key) ==
    /\ Live(i)
    /\ Apply(i, Unset(envs[i], DataOf(i), key))
    /\ UNCHANGED <<osenv, jailVars, pipeVars, fileVars>>

TestEnvSetHome(i, home, fs) ==
    /\ Live(i)
    /\ Apply(i, SetHome(envs[i], DataOf(i), home, fs))
    /\ UNCHANGED <<osenv, jailVars, pipeVars, fileVars>>

TestEnvSetUser(i, username) ==
    /\ Live(i)
    /\ Apply(i, SetUser(envs[i], DataOf(i), username))
    /\ UNCHANGED <<osenv, jailVars, pipeVars, fileVars>>

TestEnvSetwd(i, dir) ==
    /\ Live(i)
    /\ Apply(i, Setwd(envs[i], DataOf(i), dir))
    /\ UNCHANGED <<osenv, jailVars, pipeVars, fileVars>>

\* os.Setenv / os.Unsetenv, as OsEnv.Set and OsEnv.Unset call them
OsSetenv(key, value) ==
    /\ osenv' = Store(osenv, key, value)
    /\ UNCHANGED <<heap, envs, jailVars, pipeVars, fileVars>>

OsUnsetenv(key) ==
    /\ osenv' = Delete(osenv, key)
    /\ UNCHANGED <<heap, envs, jailVars, pipeVars, fileVars>>

NextEnv ==
    \/ \E k \in PathKeys, v \in PathValues, fs \in FsOutcomes : TestEnvSet(1, k, v, fs)
    \/ \E v \in UserValues, fs \in FsOutcomes : TestEnvSet(1, "USER", v, fs)
    \/ \E k \in PathKeys \cup {"USER"} : TestEnvUnset(1, k)
    \/ \E v \in PathValues, fs \in FsOutcomes : TestEnvSetHome(1, v, fs)
    \/ \E v \in UserValues : TestEnvSetUser(1, v)
    \/ \E v \in PathValues : TestEnvSetwd(1, v)

SpecEnv == InitEnv /\ [][NextEnv]_vars

Spec == SpecEnv

\* C1: with a non-empty jail, every path GetHome, Getwd and GetTempDir return
\* is contained in the jail according to IsInJail, after any sequence of
\* Set, Unset, SetHome, SetUser and Setwd.
C1_ReturnedPathsInJail ==
    (Live(1) /\ envs[1].jail /= EmptyStr) =>
        /\ ~GetHome(envs[1]).err => IsInJail(envs[1].jail, GetHome(envs[1]).val)
        /\ ~Getwd(envs[1], DataOf(1)).err
              => IsInJail(envs[1].jail, Getwd(envs[1], DataOf(1)).val)
        /\ IsInJail(envs[1].jail, GetTempDir(envs[1], DataOf(1)))

\* C8: Get("HOME"), Get("USER") and Get("PWD") equal what GetHome, GetUser
\* and Getwd report, after any sequence of Set, Unset, SetHome, SetUser and
\* Setwd.
C8_MirrorConsistency ==
    Live(1) =>
        /\ Get(envs[1], DataOf(1), "HOME") = GetHome(envs[1]).val
        /\ Get(envs[1], DataOf(1), "USER") = GetUser(envs[1]).val
        /\ Get(envs[1], DataOf(1), "PWD") = Getwd(envs[1], DataOf(1)).val

(***************************************************************************)
(* SpecIso: a TestEnv and the real process environment side by side        *)
(***************************************************************************)
IsoKeys == {"K", "HOME"}
IsoValues == {EmptyStr, Str("a"), Rooted(<<"jail", "a">>)}

InitIso ==
    /\ InitOneEnv
    /\ osenv \in {EmptyMap} \cup {[k \in OsKeys |-> v] : v \in OsValues}
    /\ JailIdle
    /\ PipeIdle
    /\ FileIdle

NextIso ==
    \/ \E k \in IsoKeys, v \in IsoValues, fs \in FsOutcomes : TestEnvSet(1, k, v, fs)
    \/ \E k \in IsoKeys : TestEnvUnset(1, k)
    \/ \E k \in OsKeys, v \in OsValues : OsSetenv(k, v)
    \/ \E k \in OsKeys : OsUnsetenv(k)

SpecIso == InitIso /\ [][NextIso]_vars

\* what a caller can read from TestEnv i through Get and Has
GetHasView(i) ==
    [k \in IsoKeys \cup OsKeys |->
        <<Get(envs[i], DataOf(i), k), Has(DataOf(i), k)>>]

\* C10: no Set or Unset on a TestEnv changes the real process environment,
\* and no change of the real process environment changes what Get and Has
\* return.
C10_Isolation ==
    [][/\ (\E k \in IsoKeys, v \in IsoValues, fs \in FsOutcomes :
              TestEnvSet(1, k, v, fs)) => osenv' = osenv
       /\ (\E k \in IsoKeys : TestEnvUnset(1, k)) => osenv' = osenv
       /\ osenv' /= osenv => GetHasView(1)' = GetHasView(1)]_vars

\* Set("K", "a") has acted while the process holds another value for K
C10_Witness ==
    /\ Live(1)
    /\ Has(DataOf(1), "K")
    /\ Get(envs[1], DataOf(1), "K") = Str("a")
    /\ "K" \in DOMAIN osenv
    /\ osenv["K"] = Str("os-value")

(***************************************************************************)
(* SpecClone: a fixture TestEnv (1) and its clone (2), as Harness.Run      *)
(* makes one per run                                                       *)
(***************************************************************************)
CloneKeys == {"HOME", "K"}
CloneValues == {Rooted(<<"jail", "a">>)}
CloneUsers == {Str("bob")}

TestEnvClone(i, j) ==
    /\ Live(i)
    /\ LET r == Clone(envs[i], DataOf(i), j)
       IN /\ envs' = [envs EXCEPT ![j] = r.env]
          /\ heap' = [heap EXCEPT ![j] = r.map]
    /\ UNCHANGED <<osenv, jailVars, pipeVars, fileVars>>

InitClone ==
    /\ \E impl \in Impls, home \in InitHomes, u \in InitUsers :
         LET r == NewTestEnv(impl, Rooted(<<"jail">>), home, u, 1)
         IN /\ envs = [i \in {1, 2} |-> IF i = 1 THEN r.env ELSE NilEnv]
            /\ heap = [m \in {1, 2} |-> IF m = 1 THEN r.map ELSE EmptyMap]
    /\ osenv = EmptyMap
    /\ JailIdle
    /\ PipeIdle
    /\ FileIdle

AnyOpOn(i) ==
    \/ \E k \in CloneKeys, v \in CloneValues, fs \in FsOutcomes : TestEnvSet(i, k, v, fs)
    \/ \E k \in CloneKeys : TestEnvUnset(i, k)
    \/ \E v \in CloneValues, fs \in FsOutcomes : TestEnvSetHome(i, v, fs)
    \/ \E v \in CloneUsers : TestEnvSetUser(i, v)
    \/ \E v \in CloneValues : TestEnvSetwd(i, v)

NextClone ==
    \/ TestEnvClone(1, 2)
    \/ \E i \in {1, 2}, k \in CloneKeys, v \in CloneValues, fs \in FsOutcomes :
          TestEnvSet(i, k, v, fs)
    \/ \E i \in {1, 2}, k \in CloneKeys : TestEnvUnset(i, k)
    \/ \E i \in {1, 2}, v \in CloneValues, fs \in FsOutcomes : TestEnvSetHome(i, v, fs)
    \/ \E i \in {1, 2}, v \in CloneUsers : TestEnvSetUser(i, v)
    \/ \E i \in {1, 2}, v \in CloneValues : TestEnvSetwd(i, v)

SpecClone == InitClone /\ [][NextClone]_vars

AllKeys == {"HOME", "USER", "PWD", "XDG_CONFIG_HOME", "XDG_CACHE_HOME",
            "XDG_DATA_HOME", "XDG_STATE_HOME", "TMPDIR", "K"}

\* the jail, home, user and variables of TestEnv i, as its methods report them
EnvView(i) ==
    [jail |-> envs[i].jail,
     home |-> GetHome(envs[i]),
     user |-> GetUser(envs[i]),
     vars |-> [k \in AllKeys |-> <<Get(envs[i], DataOf(i), k), Has(DataOf(i), k)>>]]

\* C9: Clone returns an environment with the same jail, home, user and
\* variables; afterwards no operation on the clone changes the original and
\* no operation on the original changes the clone.
C9_CloneIsolated ==
    [][/\ TestEnvClone(1, 2) => EnvView(2)' = EnvView(1)
       /\ (Live(2) /\ AnyOpOn(1)) => EnvView(2)' = EnvView(2)
       /\ (Live(2) /\ AnyOpOn(2)) => EnvView(1)' = EnvView(1)]_vars

(***************************************************************************)
(* Process and Pipeline.  A runner is abstracted by what it does with its  *)
(* Stream: how it reads s.In ("none": never, "one": a single Read, "all":  *)
(* how many bytes to s.Err (byte k is the number -k), in any interleaving  *)
(* of the three, and what it returns.  Every Write call carries one byte.  *)
(* It returns the exit code exit, with an error when fail.  A runner that  *)
(* heeds its context returns ctx.Err() once it finds the context done.     *)
(***************************************************************************)
NilRunner ==
    [reads |-> "nil", writes |-> 0, ewrites |-> 0, fail |-> FALSE,
     exit |-> 0, heeds |-> FALSE]

RunnerSet ==
    {NilRunner,
     [reads |-> "none", writes |-> MaxBytes, ewrites |-> 1, fail |-> FALSE,
      exit |-> 0, heeds |-> FALSE],
     [reads |-> "all", writes |-> MaxBytes, ewrites |-> 0, fail |-> FALSE,
      exit |-> 0, heeds |-> FALSE],
     [reads |-> "one", writes |-> 1, ewrites |-> 0, fail |-> FALSE,
      exit |-> 0, heeds |-> FALSE],
     [reads |-> "all", writes |-> 0, ewrites |-> 1, fail |-> TRUE,
      exit |-> 1, heeds |-> FALSE]}

\* A stage made by Stage(name, runner) gets a fresh Process; a stage made by
\* StageWithName(name, p) wraps a Process the caller made, on which
\* CaptureStdout may have been called already (captured).
StageSet == [runner : RunnerSet, captured : BOOLEAN]

ErrNoStages == "pipeline: no stages"
ErrNoRunner(i) == <<"Run: no runner configured", i>>
ErrRunner(i) == <<"runner error", i>>

N == Len(stages)

NewProc ==
    [pc |-> "start", dest |-> "unset", reading |-> FALSE, wrote |-> 0,
     out |-> <<>>, log |-> <<>>, eof |-> FALSE, buf |-> <<>>,
     eout |-> <<>>, ebuf |-> <<>>, err |-> <<>>, code |-> 0]

NewPipe == [made |-> FALSE, pending |-> <<>>, wclosed |-> FALSE]

NoPipelineResult ==
    [returned |-> FALSE, err |-> <<>>, code |-> 0, stdout |-> <<>>, stderr |-> <<>>]

InitPipe ==
    /\ stages \in SeqsUpTo(StageSet, NumStages)
    /\ ppc = "new"
    /\ proc = [i \in 1..Len(stages) |-> NewProc]
    /\ pipe = [i \in 1..Len(stages) |-> NewPipe]
    /\ errCh = <<>>
    /\ result = NoPipelineResult
    /\ stdin = <<>>
    /\ ctx = Background
    /\ spipe = <<>>
    /\ JailIdle
    /\ EnvIdle
    /\ FileIdle

\* PipelineRunEmpty as it would be without the check for an empty stage list:
\* nothing fails, so the result reports success
PipelineRunEmpty_succeeding ==
    /\ ppc = "new"
    /\ N = 0
    /\ result' = [returned |-> TRUE, err |-> <<>>, code |-> 0, stdout |-> <<>>,
                  stderr |-> <<>>]
    /\ ppc' = "done"
    /\ UNCHANGED <<stages, proc, pipe, errCh, stdin, ctx, spipe, jailVars,
                   envVars, fileVars>>

\* Pipeline.Run with no stage: a configuration error, nothing is launched
PipelineRunEmpty ==
    /\ ppc = "new"
    /\ N = 0
    /\ result' = [returned |-> TRUE, err |-> <<ErrNoStages>>, code |-> 1,
                  stdout |-> <<>>, stderr |-> <<>>]
    /\ ppc' = "done"
    /\ UNCHANGED <<stages, proc, pipe, errCh, stdin, ctx, spipe, jailVars,
                   envVars, fileVars>>

\* Pipeline.Run, up to wg.Go: StdoutPipe() on every stage but the last,
\* the Pipeline's buffer installed as the last Process's outBuf, then one
\* goroutine per stage.
PipelineRunLaunch ==
    /\ ppc = "new"
    /\ N > 0
    /\ pipe' = [i \in 1..N |-> IF i < N THEN [NewPipe EXCEPT !.made = TRUE]
                               ELSE NewPipe]
    /\ ppc' = "waiting"
    /\ UNCHANGED <<stages, proc, errCh, result, stdin, ctx, spipe, jailVars,
                   envVars, fileVars>>

\* The writer Process.Run hands to the runner as s.Out: p.outBuf when there
\* is one, else the write end of the stdout pipe, else a new buffer.
OutDest(i) ==
    IF i = N \/ stages[i].captured THEN "buf"
    ELSE IF pipe[i].made THEN "pipe"
    ELSE "buf"

Running(i) == ppc = "waiting" /\ i \in 1..N

\* Process.Run with a nil runner: returns at once with an error and without
\* closing anything; the goroutine sends the error on errCh.
ProcessRunNoRunner(i) ==
    /\ Running(i)
    /\ proc[i].pc = "start"
    /\ stages[i].runner = NilRunner
    /\ proc' = [proc EXCEPT ![i].pc = "done", ![i].err = <<ErrNoRunner(i)>>,
                            ![i].code = 1]
    /\ errCh' = Append(errCh, <<ErrNoRunner(i)>>)
    /\ UNCHANGED <<stages, ppc, pipe, result, stdin, ctx, spipe, jailVars,
                   envVars, fileVars>>

\* Process.Run: choose the streams and call the runner
ProcessRunSetup(i) ==
    /\ Running(i)
    /\ proc[i].pc = "start"
    /\ stages[i].runner /= NilRunner
    /\ proc' = [proc EXCEPT ![i].pc = "running", ![i].dest = OutDest(i),
                            ![i].reading = stages[i].runner.reads /= "none"]
    /\ UNCHANGED <<stages, ppc, pipe, errCh, result, stdin, ctx, spipe, jailVars,
                   envVars, fileVars>>

\* a Read on s.In returns: stage 1 reads the empty default source, a later
\* stage reads the pipe of the stage before it; Read blocks while the pipe
\* holds no byte and its writer is open.
RunnerRead(i) ==
    /\ Running(i)
    /\ proc[i].pc \in {"running", "writing"}
    /\ proc[i].reading
    /\ IF i = 1
       THEN /\ proc' = [proc EXCEPT ![i].eof = TRUE, ![i].reading = FALSE]
            /\ UNCHANGED pipe
       ELSE IF pipe[i - 1].pending /= <<>>
            THEN /\ proc' = [proc EXCEPT ![i].log = Append(@, Head(pipe[i - 1].pending)),
                                         ![i].reading = stages[i].runner.reads = "all"]
                 /\ pipe' = [pipe EXCEPT ![i - 1].pending = Tail(@)]
            ELSE /\ pipe[i - 1].wclosed
                 /\ proc' = [proc EXCEPT ![i].eof = TRUE, ![i].reading = FALSE]
                 /\ UNCHANGED pipe
    /\ UNCHANGED <<stages, ppc, errCh, result, stdin, ctx, spipe, jailVars,
                   envVars, fileVars>>

\* a Write on s.Out begins: into the buffer it completes at once, into the
\* pipe it waits for the reader
RunnerWrite(i) ==
    /\ Running(i)
    /\ proc[i].pc = "running"
    /\ proc[i].wrote < stages[i].runner.writes
    /\ LET b == proc[i].wrote + 1
       IN IF proc[i].dest = "pipe"
          THEN /\ pipe' = [pipe EXCEPT ![i].pending = <<b>>]
               /\ proc' = [proc EXCEPT ![i].pc = "writing", ![i].out = Append(@, b)]
          ELSE /\ proc' = [proc EXCEPT ![i].wrote = b, ![i].out = Append(@, b),
                                       ![i].buf = Append(@, b)]
               /\ UNCHANGED pipe
    /\ UNCHANGED <<stages, ppc, errCh, result, stdin, ctx, spipe, jailVars,
                   envVars, fileVars>>

\* a Write on s.Err: the stream is a buffer (the Pipeline's errBuf for the
\* last stage, the Process's own otherwise), so the Write completes at once
RunnerWriteErr(i) ==
    /\ Running(i)
    /\ proc[i].pc = "running"
    /\ Len(proc[i].eout) < stages[i].runner.ewrites
    /\ proc' = [proc EXCEPT ![i].eout = Append(@, -(Len(@) + 1)),
                            ![i].ebuf = Append(@, -(Len(@) + 1))]
    /\ UNCHANGED <<stages, ppc, pipe, errCh, result, stdin, ctx, spipe, jailVars,
                   envVars, fileVars>>

\* the pipe Write returns once the reader has taken the byte
RunnerWriteDone(i) ==
    /\ Running(i)
    /\ proc[i].pc = "writing"
    /\ pipe[i].pending = <<>>
    /\ proc' = [proc EXCEPT ![i].pc = "running", ![i].wrote = @ + 1]
    /\ UNCHANGED <<stages, ppc, pipe, errCh, result, stdin, ctx, spipe, jailVars,
                   envVars, fileVars>>

\* the runner returns when its reads and writes are complete
RunnerReturn(i) ==
    /\ Running(i)
    /\ proc[i].pc = "running"
    /\ ~proc[i].reading
    /\ proc[i].wrote = stages[i].runner.writes
    /\ Len(proc[i].eout) = stages[i].runner.ewrites
    /\ proc' = [proc EXCEPT ![i].pc = "returned",
                            ![i].err = IF stages[i].runner.fail
                                       THEN <<ErrRunner(i)>> ELSE <<>>,
                            ![i].code = stages[i].runner.exit]
    /\ UNCHANGED <<stages, ppc, pipe, errCh, result, stdin, ctx, spipe, jailVars,
                   envVars, fileVars>>

\* Process.Run after the runner: close the pipe writers, fill the result;
\* the goroutine sends res.Err on errCh
ProcessRunClose(i) ==
    /\ Running(i)
    /\ proc[i].pc = "returned"
    /\ pipe' = [pipe EXCEPT ![i].wclosed = pipe[i].made]
    /\ proc' = [proc EXCEPT ![i].pc = "done"]
    /\ errCh' = Append(errCh, proc[i].err)
    /\ UNCHANGED <<stages, ppc, result, stdin, ctx, spipe, jailVars,
                   envVars, fileVars>>

RECURSIVE Flatten(_)
\* the non-nil errors received from errCh, in the order received
Flatten(ch) == IF ch = <<>> THEN <<>> ELSE Head(ch) \o Flatten(Tail(ch))

\* JoinErrors as it would be if only the first error were kept
JoinErrors_firstOnly(ch) ==
    IF Flatten(ch) = <<>> THEN <<>> ELSE <<Head(Flatten(ch))>>

\* errors.Join over the collected errors; nil when there is none
JoinErrors(ch) == Flatten(ch)

\* PipelineRunCollect as it would be if the result took the first stage's
\* buffers
PipelineRunCollect_firstStage ==
    /\ ppc = "waiting"
    /\ \A i \in 1..N : proc[i].pc = "done"
    /\ LET errs == JoinErrors(errCh)
       IN result' = [returned |-> TRUE, err |-> errs,
                     code |-> IF Len(errs) > 0 THEN 1 ELSE 0,
                     stdout |-> proc[1].buf, stderr |-> proc[1].ebuf]
    /\ ppc' = "done"
    /\ UNCHANGED <<stages, proc, pipe, errCh, stdin, ctx, spipe, jailVars,
                   envVars, fileVars>>

\* PipelineRunCollect as it would be if the wait also ended when the context
\* is done
PipelineRunCollect_onDeadline ==
    /\ ppc = "waiting"
    /\ ctx.done \/ \A i \in 1..N : proc[i].pc = "done"
    /\ LET errs == JoinErrors(errCh)
       IN result' = [returned |-> TRUE, err |-> errs,
                     code |-> IF Len(errs) > 0 THEN 1 ELSE 0,
                     stdout |-> proc[N].buf, stderr |-> proc[N].ebuf]
    /\ ppc' = "done"
    /\ UNCHANGED <<stages, proc, pipe, errCh, stdin, ctx, spipe, jailVars,
                   envVars, fileVars>>

\* Pipeline.Run after wg.Wait: collect the errors, fill the result from the
\* Pipeline's buffers, which the last stage wrote
PipelineRunCollect ==
    /\ ppc = "waiting"
    /\ \A i \in 1..N : proc[i].pc = "done"
    /\ LET errs == JoinErrors(errCh)
       IN result' = [returned |-> TRUE, err |-> errs,
                     code |-> IF Len(errs) > 0 THEN 1 ELSE 0,
                     stdout |-> proc[N].buf, stderr |-> proc[N].ebuf]
    /\ ppc' = "done"
    /\ UNCHANGED <<stages, proc, pipe, errCh, stdin, ctx, spipe, jailVars,
                   envVars, fileVars>>

NextPipe ==
    \/ PipelineRunEmpty
    \/ PipelineRunLaunch
    \/ \E i \in 1..N : ProcessRunNoRunner(i)
    \/ \E i \in 1..N : ProcessRunSetup(i)
    \/ \E i \in 1..N : RunnerRead(i)
    \/ \E i \in 1..N : RunnerWrite(i)
    \/ \E i \in 1..N : RunnerWriteDone(i)
    \/ \E i \in 1..N : RunnerWriteErr(i)
    \/ \E i \in 1..N : RunnerReturn(i)
    \/ \E i \in 1..N : ProcessRunClose(i)
    \/ PipelineRunCollect

SpecPipe == InitPipe /\ [][NextPipe]_vars

\* the bytes stage i's runner has written to its output so far
Written(i) == proc[i].out

\* C4: stage i+1 reads exactly the bytes stage i's runner wrote, in write
\* order and with none lost, and sees EOF only after stage i's runner has
\* returned.
C4_StageReadsWhatWasWritten ==
    \A i \in 1..(N - 1) :
        /\ IsPrefixSeq(proc[i + 1].log, Written(i))
        /\ proc[i + 1].eof =>
              /\ proc[i].pc \in {"returned", "done"}
              /\ proc[i + 1].log = Written(i)

Stuck == ppc = "waiting" /\ ~ENABLED NextPipe

\* C5: Pipeline.Run eventually returns when every runner returns once its
\* own reads and writes complete.  Every step of a run makes progress, so
\* the run returns unless it reaches a state where the pipeline waits and no
\* stage can take a step.
C5_RunReturns == ~Stuck

StageErrors == {proc[i].err[1] : i \in {j \in 1..N : proc[j].err /= <<>>}}

Joined(err) == {err[k] : k \in 1..Len(err)}

ResultAggregates ==
    /\ (result.err = <<>> /\ result.code = 0) <=> StageErrors = {}
    /\ StageErrors /= {} =>
          /\ result.code = 1
          /\ result.err /= <<>>
          /\ StageErrors \subseteq Joined(result.err)

\* C6 as stated: the result has Err == nil and ExitCode == 0 exactly when no
\* stage returned a non-nil error; otherwise ExitCode == 1 and Err joins
\* every non-nil stage error.
C6_ResultAggregatesStageErrors == result.returned => ResultAggregates

\* C6 amended: the aggregation holds for a pipeline with at least one stage;
\* a pipeline with no stage returns the configuration error and ExitCode 1.
C6_ResultAggregatesWhenStaged ==
    result.returned =>
        IF N > 0 THEN ResultAggregates
        ELSE result.err = <<ErrNoStages>> /\ result.code = 1

C6_Witness ==
    /\ result.returned
    /\ N = 2
    /\ stages[1].runner.fail
    /\ stages[2].runner = NilRunner
    /\ Len(result.err) = 2

RECURSIVE LaunchOrderErrors(_)
LaunchOrderErrors(n) ==
    IF n = 0 THEN <<>> ELSE LaunchOrderErrors(n - 1) \o proc[n].err

\* C28: when several stages return errors, the joined error lists them in
\* the order the stages were launched, whatever the order in which the stages
\* finish.
C28_ErrorsInLaunchOrder ==
    (result.returned /\ N > 0) => result.err = LaunchOrderErrors(N)

\* C29: when Process.Run has returned, whatever its outcome, the write end
\* of the stdout pipe the process owns is closed, so that the reader of its
\* StdoutPipe reaches EOF.
C29_ReturnedRunClosedItsPipes ==
    \A i \in 1..N :
        (proc[i].pc = "done" /\ pipe[i].made) => pipe[i].wclosed

(***************************************************************************)
(* AtomicWriteFile.  The filesystem is two names, the target path and the  *)
(* temporary file; a file is absent or holds a byte string.  Every system  *)
(* call of the function may fail, and tmpFile.Write may fail after any     *)
(* number of bytes has reached the temporary file.                         *)
(***************************************************************************)
ByteValues == {1, 2}

Contents == SeqsUpTo(ByteValues, MaxData)

NoFile == [exists |-> FALSE, data |-> <<>>]

File(d) == [exists |-> TRUE, data |-> d]

\* the name os.CreateTemp returns if the write went to the path itself
TempName_inPlace == "target"

\* the name os.CreateTemp returns: a new name, never the target's
TempName == "tmp"

InitFile ==
    /\ \E old \in {NoFile} \cup {File(d) : d \in Contents}, data \in Contents :
          /\ files = [n \in {"target", "tmp"} |-> IF n = "target" THEN old ELSE NoFile]
          /\ aw = [pc |-> "mkdir", data |-> data, old |-> old, err |-> "nil"]
    /\ disk = {}
    /\ JailIdle
    /\ EnvIdle
    /\ PipeIdle

AwStep(pc, err) == aw' = [aw EXCEPT !.pc = pc, !.err = err]

\* Mkdir(ctx, dir, 0o755, true)
AwMkdir ==
    /\ aw.pc = "mkdir"
    /\ \/ AwStep("create", "nil")
       \/ AwStep("done", "mkdirall")
    /\ UNCHANGED <<files, disk, jailVars, envVars, pipeVars>>

\* os.CreateTemp(dir, ".tmp-"+base+".*"), then defer os.Remove(tmpName)
AwCreateTemp ==
    /\ aw.pc = "create"
    /\ \/ /\ files' = [files EXCEPT ![TempName] = File(<<>>)]
          /\ AwStep("write", "nil")
       \/ /\ AwStep("done", "create temp file")
          /\ UNCHANGED files
    /\ UNCHANGED <<disk, jailVars, envVars, pipeVars>>

\* tmpFile.Write(data): one more byte reaches the temporary file
AwWriteByte ==
    /\ aw.pc = "write"
    /\ Len(files[TempName].data) < Len(aw.data)
    /\ files' = [files EXCEPT
                    ![TempName].data = Append(@, aw.data[Len(@) + 1])]
    /\ UNCHANGED <<aw, disk, jailVars, envVars, pipeVars>>

\* tmpFile.Write(data) returns: complete, or with an error after which the
\* file is closed and the function returns
AwWriteReturn ==
    /\ aw.pc = "write"
    /\ \/ /\ files[TempName].data = aw.data
          /\ AwStep("close", "nil")
       \/ AwStep("cleanup", "write temp file")
    /\ UNCHANGED <<files, disk, jailVars, envVars, pipeVars>>

\* tmpFile.Close()
AwClose ==
    /\ aw.pc = "close"
    /\ \/ AwStep("chmod", "nil")
       \/ AwStep("cleanup", "close temp file")
    /\ UNCHANGED <<files, disk, jailVars, envVars, pipeVars>>

\* os.Chmod(tmpName, perm): a failure is logged and ignored
AwChmod ==
    /\ aw.pc = "chmod"
    /\ AwStep("rename", "nil")
    /\ UNCHANGED <<files, disk, jailVars, envVars, pipeVars>>

\* AwRename as it would be if a failed rename returned without removing the
\* temporary file
AwRename_noCleanup ==
    /\ aw.pc = "rename"
    /\ \/ /\ files' = [n \in {"target", "tmp"} |->
                          IF n = "target" THEN files[TempName]
                          ELSE IF n = TempName THEN NoFile ELSE files[n]]
          /\ AwStep("cleanup", "nil")
       \/ /\ AwStep("done", "rename")
          /\ UNCHANGED files
    /\ UNCHANGED <<disk, jailVars, envVars, pipeVars>>

\* Rename(ctx, tmpName, path): the temporary file replaces the target in one
\* step, or the rename fails and changes nothing
AwRename ==
    /\ aw.pc = "rename"
    /\ \/ /\ files' = [n \in {"target", "tmp"} |->
                          IF n = "target" THEN files[TempName]
                          ELSE IF n = TempName THEN NoFile ELSE files[n]]
          /\ AwStep("cleanup", "nil")
       \/ /\ AwStep("cleanup", "rename")
          /\ UNCHANGED files
    /\ UNCHANGED <<disk, jailVars, envVars, pipeVars>>

\* the deferred os.Remove(tmpName), then the function returns
AwCleanup ==
    /\ aw.pc = "cleanup"
    /\ files' = [files EXCEPT ![TempName] = NoFile]
    /\ aw' = [aw EXCEPT !.pc = "done"]
    /\ UNCHANGED <<disk, jailVars, envVars, pipeVars>>

NextFile ==
    \/ AwMkdir
    \/ AwCreateTemp
    \/ AwWriteByte
    \/ AwWriteReturn
    \/ AwClose
    \/ AwChmod
    \/ AwRename
    \/ AwCleanup

SpecFile == InitFile /\ [][NextFile]_vars

\* C7: in every state during and after AtomicWriteFile(path, data), also
\* after a failure at any step, the file at path is in its previous state
\* (absent or with its old content) or holds exactly data, never a part of it.
C7_TargetOldOrData == files["target"] \in {aw.old, File(aw.data)}

C7_Witness ==
    /\ aw.pc = "done"
    /\ aw.err = "nil"
    /\ Len(aw.data) = MaxData
    /\ aw.old.exists
    /\ aw.old.data /= aw.data
    /\ files["target"] = File(aw.data)

\* the steps of AtomicWriteFile that fail with the temporary file in place
TempSteps == {"write temp file", "close temp file", "rename"}

C11_EmptyPipelineFails ==
    N = 0 =>
        /\ ppc \in {"new", "done"}
        /\ proc = <<>> /\ pipe = <<>> /\ errCh = <<>>
        /\ ppc = "done" =>
              /\ result.returned
              /\ result.code = 1
              /\ result.err /= <<>>

C11_Witness == N = 0 /\ ppc = "done" /\ result.returned

(***************************************************************************)
(* SpecWrite: files written through a TestEnv.  os.WriteFile creates the   *)
(* file at the name it is given: an absolute name as it stands, a relative *)
(* name beneath the working directory of the test process, which is not in *)
(* the jail.                                                               *)
(***************************************************************************)
ProcessDirs == {Rooted(<<"work">>)}

\* the real location of a file the operating system is asked to create
OsLocation(path, cwd) == IF IsAbs(path) THEN Clean(path) ELSE Join(cwd, path)

\* ExpandPath(ctx, p) of the package: as TestEnv.ExpandPath, but a home that
\* is not set is an error
ExpandPathCtx(e, p) ==
    IF p = EmptyStr THEN Ok(p)
    ELSE IF ~StartsWithTilde(p) THEN Ok(p)
    ELSE IF SimpleTilde(p)
         THEN IF GetHome(e).err THEN Fail ELSE Ok(ExpandPath(e, p))
    ELSE Ok(p)

\* AbsPath from the ExpandPath call on: p is the expanded path, wd what
\* env.Getwd() returns, cwd the working directory of the process
AbsExpanded(p, wd, cwd) ==
    IF IsAbs(p) THEN Clean(p)
    ELSE IF ~wd.err /\ wd.val /= EmptyStr
         THEN Join(IF IsAbs(wd.val) THEN wd.val ELSE Join(cwd, wd.val), p)
    ELSE Join(cwd, p)

\* AbsPath(ctx, rel)
AbsPath(e, d, rel, cwd) ==
    IF rel = EmptyStr THEN EmptyStr
    ELSE IF ExpandPathCtx(e, rel).err THEN AbsExpanded(rel, Getwd(e, d), cwd)
    ELSE AbsExpanded(ExpandPathCtx(e, rel).val, Getwd(e, d), cwd)

\* TestEnv.WriteFile: the name handed to os.WriteFile
WriteFileName(e, name) ==
    IF e.impl = "jailed" THEN EnsureInJail(e.jail, ExpandPath(e, name))
    ELSE ExpandPath(e, name)

WriteNames ==
    {Str("a"), Relative(<<"..", "..", "..", "a">>), Rooted(<<"etc", "passwd">>),
     Rooted(<<"jail", "a">>), Relative(<<"~", "a">>)}

WriteDirs == {Rooted(<<"jail", "a">>), Str("a")}

\* m.WriteFile(name, data, perm), the write succeeding
TestEnvWriteFile(i, name, cwd) ==
    /\ Live(i)
    /\ disk' = disk \cup {OsLocation(WriteFileName(envs[i], name), cwd)}
    /\ UNCHANGED <<files, aw, envVars, jailVars, pipeVars>>

\* WriteFile(ctx, rel, data, perm) of the package, the directory made and the
\* write succeeding
WriteFile(i, rel, cwd) ==
    /\ Live(i)
    /\ ~ExpandPathCtx(envs[i], rel).err
    /\ disk' = disk \cup
          {OsLocation(WriteFileName(envs[i],
                         AbsPath(envs[i], DataOf(i),
                                 ExpandPathCtx(envs[i], rel).val, cwd)), cwd)}
    /\ UNCHANGED <<files, aw, envVars, jailVars, pipeVars>>

InitWrite ==
    /\ \E impl \in Impls, home \in InitHomes, u \in InitUsers :
         LET r == NewTestEnv(impl, Rooted(<<"jail">>), home, u, 1)
         IN /\ envs = [i \in {1, 2} |-> IF i = 1 THEN r.env ELSE NilEnv]
            /\ heap = [m \in {1, 2} |-> IF m = 1 THEN r.map ELSE EmptyMap]
    /\ osenv = EmptyMap
    /\ JailIdle
    /\ PipeIdle
    /\ FileIdle

NextWrite ==
    \/ \E name \in WriteNames, cwd \in ProcessDirs : TestEnvWriteFile(1, name, cwd)
    \/ \E rel \in WriteNames, cwd \in ProcessDirs : WriteFile(1, rel, cwd)
    \/ \E dir \in WriteDirs : TestEnvSetwd(1, dir)

SpecWrite == InitWrite /\ [][NextWrite]_vars

\* C12: every file written through the package's WriteFile or TestEnv.WriteFile
\* is created beneath the jail directory on the real file system, for relative
\* paths, relative paths climbing with "..", and absolute paths outside the
\* jail.
C12_WritesBeneathJail ==
    \A loc \in disk : SegmentContained(envs[1].jail, loc)

(***************************************************************************)
(* TestEnv.ResolvePath of the "virtual" version: the path handed back for  *)
(* a name, in the coordinates of the jail (the jail is the root).          *)
(***************************************************************************)

\* names handed to ResolvePath
ResolveNames ==
    {EmptyStr, Str("a"), Relative(<<"..", "..", "..", "a">>),
     Rooted(<<"etc", "passwd">>), Rooted(<<"jail", "a">>),
     Relative(<<"~", "a">>)}

\* directories handed to Setwd
ResolveDirs == {Rooted(<<"h", "a">>), Str("a"), Str("~")}

\* which of the keys HOME and PWD the map of TestEnv i holds
Had(i) == {k \in {"HOME", "PWD"} : Has(DataOf(i), k)}

TestEnvResolvePath(i, rel, fs) ==
    /\ Live(i)
    /\ jailRes' = [op |-> "ResolvePath", arg |-> rel,
                   path |-> ResolvePath(envs[i], DataOf(i), rel, fs).val,
                   ok |-> ~ResolvePath(envs[i], DataOf(i), rel, fs).err,
                   wd |-> Getwd(envs[i], DataOf(i)), fs |-> fs, had |-> Had(i)]
    /\ jailArg' = envs[i].jail
    /\ pathArg' = rel
    /\ UNCHANGED <<envVars, pipeVars, fileVars>>

InitResolve ==
    /\ \E home \in InitHomes, u \in InitUsers :
          LET r == NewTestEnv("virtual", Rooted(<<"jail">>), home, u, 1)
          IN /\ envs = [i \in {1, 2} |-> IF i = 1 THEN r.env ELSE NilEnv]
             /\ heap = [m \in {1, 2} |-> IF m = 1 THEN r.map ELSE EmptyMap]
    /\ osenv = EmptyMap
    /\ JailIdle
    /\ PipeIdle
    /\ FileIdle

NextResolve ==
    \/ \E rel \in ResolveNames, fs \in FsOutcomes : TestEnvResolvePath(1, rel, fs)
    \/ \E dir \in ResolveDirs : TestEnvSetwd(1, dir)
    \/ TestEnvUnset(1, "PWD")

SpecResolve == InitResolve /\ [][NextResolve]_vars

\* the place in the real file system a path of the jail's coordinates names
JailLocation(jail, p) == Join(jail, p)

\* C13: a path ResolvePath returns in a jailed environment is an absolute
\* path of the jail's coordinates whose place lies beneath the jail: more
\* ".." than the working directory is deep stop at the jail's root, and an
\* absolute name outside the jail is a place under the jail.
C13_ResolvedInsideJail ==
    (jailRes.op = "ResolvePath" /\ jailRes.ok) =>
        /\ IsAbs(jailRes.path)
        /\ SegmentContained(jailArg, JailLocation(jailArg, jailRes.path))

\* a TestEnv without a jail, as TestResolvePath builds it
InitLexical ==
    /\ \E home \in InitHomes, u \in InitUsers :
          LET r == NewTestEnv("virtual", EmptyStr, home, u, 1)
          IN /\ envs = [i \in {1, 2} |-> IF i = 1 THEN r.env ELSE NilEnv]
             /\ heap = [m \in {1, 2} |-> IF m = 1 THEN r.map ELSE EmptyMap]
    /\ osenv = EmptyMap
    /\ JailIdle
    /\ PipeIdle
    /\ FileIdle

SpecLexical == InitLexical /\ [][NextResolve]_vars

\* C21: resolving the empty path returns the working directory; an absolute
\* path (after tilde expansion) is used as it is, cleaned; a relative path is
\* joined onto the working directory last set with Setwd and cleaned; all of
\* it whether or not the path exists on disk.
C21_LexicalResolution ==
    (jailRes.op = "ResolvePath" /\ ~jailRes.wd.err) =>
        /\ jailRes.ok
        /\ jailRes.path =
              IF jailRes.arg = EmptyStr THEN jailRes.wd.val
              ELSE IF IsAbs(ExpandPath(envs[1], jailRes.arg))
                   THEN Clean(ExpandPath(envs[1], jailRes.arg))
                   ELSE Join(jailRes.wd.val, ExpandPath(envs[1], jailRes.arg))

(***************************************************************************)
(* ExpandPath: the package function, which reads the home directory from   *)
(* the Env of the context, and the TestEnv method.                         *)
(***************************************************************************)

\* paths handed to ExpandPath
ExpandNames ==
    {EmptyStr, Str("~"), Relative(<<"~", "a">>), Relative(<<"~\\a">>),
     Relative(<<"~\\a", "a">>), Relative(<<"~bob", "project">>), Str("a"),
     Rooted(<<"tmp", "~bob", "file">>), Relative(<<"a", "..", "~">>)}

\* ExpandPath(ctx, p) with TestEnv i in the context
CallExpandPath(i, p) ==
    /\ Live(i)
    /\ jailRes' = [op |-> "ExpandPath", arg |-> p,
                   path |-> ExpandPathCtx(envs[i], p).val,
                   ok |-> ~ExpandPathCtx(envs[i], p).err, had |-> Had(i)]
    /\ UNCHANGED <<jailArg, pathArg, envVars, pipeVars, fileVars>>

TestEnvExpandPath(i, p) ==
    /\ Live(i)
    /\ jailRes' = [op |-> "TestEnv.ExpandPath", arg |-> p,
                   path |-> ExpandPath(envs[i], p), ok |-> TRUE]
    /\ UNCHANGED <<jailArg, pathArg, envVars, pipeVars, fileVars>>

\* a TestEnv as NewTestEnv returns it, with or without a later Unset("HOME")
InitExpand ==
    /\ \E impl \in Impls, jail \in EnvJails, home \in InitHomes, u \in InitUsers,
          unset \in BOOLEAN :
          LET r == NewTestEnv(impl, jail, home, u, 1)
              q == IF unset THEN Unset(r.env, r.map, "HOME") ELSE r
          IN /\ envs = [i \in {1, 2} |-> IF i = 1 THEN q.env ELSE NilEnv]
             /\ heap = [m \in {1, 2} |-> IF m = 1 THEN q.map ELSE EmptyMap]
    /\ osenv = EmptyMap
    /\ JailIdle
    /\ PipeIdle
    /\ FileIdle

NextExpand ==
    \/ \E p \in ExpandNames : CallExpandPath(1, p)
    \/ \E p \in ExpandNames : TestEnvExpandPath(1, p)

SpecExpand == InitExpand /\ [][NextExpand]_vars

\* C20: path expansion maps "~" to the home directory, "~/rest" and "~\rest"
\* to home joined with rest, and returns every other input unchanged and
\* without error: the empty string, paths that do not start with a tilde (a
\* tilde in the middle included), and other leading-tilde forms (~bob/project).
C20_ExpandPathForms ==
    jailRes.op \in {"ExpandPath", "TestEnv.ExpandPath"} =>
    IF ~StartsWithTilde(jailRes.arg) \/ jailRes.arg.segs[1] = "~bob"
    THEN jailRes.ok /\ jailRes.path = jailRes.arg
    ELSE ~GetHome(envs[1]).err =>
            /\ jailRes.ok
            /\ jailRes.path =
                  IF jailRes.arg = Str("~") THEN Clean(GetHome(envs[1]).val)
                  ELSE Join(GetHome(envs[1]).val, AfterTilde(jailRes.arg))

C20_Witness ==
    /\ jailRes.op = "ExpandPath"
    /\ jailRes.arg = Relative(<<"~\\a", "a">>)
    /\ jailRes.ok
    /\ jailRes.path = Join(GetHome(envs[1]).val, Relative(<<"a", "a">>))
    /\ jailRes.path /= jailRes.arg

(***************************************************************************)
(* Expansion and resolution after Unset("HOME") and Unset("PWD")           *)
(***************************************************************************)

TestEnvGetHome(i) ==
    /\ Live(i)
    /\ jailRes' = [op |-> "GetHome", arg |-> EmptyStr,
                   path |-> GetHome(envs[i]).val, ok |-> ~GetHome(envs[i]).err,
                   had |-> Had(i)]
    /\ UNCHANGED <<jailArg, pathArg, envVars, pipeVars, fileVars>>

TestEnvGetwd(i) ==
    /\ Live(i)
    /\ jailRes' = [op |-> "Getwd", arg |-> EmptyStr,
                   path |-> Getwd(envs[i], DataOf(i)).val,
                   ok |-> ~Getwd(envs[i], DataOf(i)).err, had |-> Had(i)]
    /\ UNCHANGED <<jailArg, pathArg, envVars, pipeVars, fileVars>>

\* names handed to ExpandPath and ResolvePath once a value is unset
UnsetNames ==
    {Str("~"), Relative(<<"~", "a">>), Str("a"), Rooted(<<"etc", "passwd">>),
     Relative(<<"~bob", "project">>)}

NextUnset ==
    \/ \E k \in {"HOME", "PWD"} : TestEnvUnset(1, k)
    \/ TestEnvGetHome(1)
    \/ TestEnvGetwd(1)
    \/ \E p \in UnsetNames : CallExpandPath(1, p)
    \/ \E rel \in UnsetNames, fs \in FsOutcomes :
          envs[1].impl = "virtual" /\ TestEnvResolvePath(1, rel, fs)

SpecUnset == InitEnv /\ [][NextUnset]_vars

\* C22: once HOME is unset GetHome and the expansion of "~" and "~/x" return
\* an error, and once the working directory is unset Getwd and the resolution
\* of a relative path return an error; an input that needs neither value
\* still succeeds.
C22_UnsetValueIsAnError ==
    /\ (jailRes.op = "GetHome" /\ "HOME" \notin jailRes.had) => ~jailRes.ok
    /\ (jailRes.op = "Getwd" /\ "PWD" \notin jailRes.had) => ~jailRes.ok
    /\ jailRes.op = "ExpandPath" =>
          IF SimpleTilde(jailRes.arg) THEN "HOME" \notin jailRes.had => ~jailRes.ok
          ELSE jailRes.ok
    /\ jailRes.op = "ResolvePath" =>
          IF IsAbs(jailRes.arg) THEN jailRes.ok
          ELSE (~StartsWithTilde(jailRes.arg) /\ "PWD" \notin jailRes.had)
                  => ~jailRes.ok

(***************************************************************************)
(* AbsPath(ctx, rel) with a jailed TestEnv in the context                  *)
(***************************************************************************)

\* paths handed to AbsPath
AbsNames ==
    {Str("a"), Relative(<<"a", "..", "a">>), Relative(<<"..", "..", "..", "a">>),
     Rooted(<<"etc", "passwd">>), Rooted(<<"jail", "a">>), Relative(<<"~", "a">>)}

CallAbsPath(i, rel, cwd) ==
    /\ Live(i)
    /\ jailRes' = [op |-> "AbsPath", arg |-> rel,
                   path |-> AbsPath(envs[i], DataOf(i), rel, cwd), ok |-> TRUE]
    /\ UNCHANGED <<jailArg, pathArg, envVars, pipeVars, fileVars>>

NextAbs ==
    \/ \E rel \in AbsNames, cwd \in ProcessDirs : CallAbsPath(1, rel, cwd)
    \/ \E dir \in WriteDirs : TestEnvSetwd(1, dir)
    \/ \E k \in {"HOME", "PWD"} : TestEnvUnset(1, k)

SpecAbs == InitWrite /\ [][NextAbs]_vars

\* the place a path returned with TestEnv e names: the "virtual" version
\* hands out paths in the coordinates of the jail, the "jailed" one real paths
PlaceOf(e, p) == IF e.impl = "virtual" THEN JailLocation(e.jail, p) ELSE p

\* C23: with a non-empty jail AbsPath returns a cleaned path contained in the
\* jail for every input, an absolute input outside the jail included.
C23_AbsPathInsideJail ==
    jailRes.op = "AbsPath" =>
        /\ jailRes.path = Clean(jailRes.path)
        /\ SegmentContained(envs[1].jail, PlaceOf(envs[1], jailRes.path))

(***************************************************************************)
(* UserConfigPath, UserCachePath, UserDataPath, UserStatePath.  A path is  *)
(* a sequence of elements on either platform; the separator plays no part. *)
(***************************************************************************)

\* runtime.GOOS
Platforms == {"linux", "windows"}

\* NewTestEnv(jail, home, username) on the given platform: the Windows branch
\* stores APPDATA, LOCALAPPDATA and TMPDIR in place of the XDG_* variables
WindowsDefaults(d, h) ==
    [k \in {"HOME", "USER", "PWD", "APPDATA", "LOCALAPPDATA", "TMPDIR"} |->
        IF k = "APPDATA" THEN Join(h, Relative(<<"AppData", "Roaming">>))
        ELSE IF k = "LOCALAPPDATA" THEN Join(h, Relative(<<"AppData", "Local">>))
        ELSE IF k = "TMPDIR" THEN Join(h, Relative(<<"AppData", "Local", "Temp">>))
        ELSE d[k]]

OnPlatform(goos, r) ==
    Upd([impl |-> r.env.impl, jail |-> r.env.jail, home |-> r.env.home,
         user |-> r.env.user, data |-> r.env.data, goos |-> goos],
        IF goos = "windows" THEN WindowsDefaults(r.map, r.env.home) ELSE r.map)

\* what the four functions return: a path, the error of GetHome, or an error
\* that wraps ErrNoEnvKey
PathOk(p) == [err |-> FALSE, val |-> p, wraps |-> "none"]
HomeErr == [err |-> TRUE, val |-> EmptyStr, wraps |-> "home not set"]
NoEnvKeyErr == [err |-> TRUE, val |-> EmptyStr, wraps |-> "ErrNoEnvKey"]

\* filepath.Join(home, sub...) once no variable has decided the answer
UnderHome(e, sub) ==
    IF GetHome(e).err THEN HomeErr ELSE PathOk(Join(GetHome(e).val, sub))

UserConfigPath(e, d) ==
    IF Get(e, d, "XDG_CONFIG_HOME") /= EmptyStr
    THEN PathOk(Clean(Get(e, d, "XDG_CONFIG_HOME")))
    ELSE IF Get(e, d, "APPDATA") /= EmptyStr
         THEN PathOk(Clean(Get(e, d, "APPDATA")))
    ELSE UnderHome(e, Str(".config"))

UserCachePath(e, d) ==
    IF Get(e, d, "XDG_CACHE_HOME") /= EmptyStr
    THEN PathOk(Clean(Get(e, d, "XDG_CACHE_HOME")))
    ELSE IF Get(e, d, "LOCALAPPDATA") /= EmptyStr
         THEN PathOk(Clean(Get(e, d, "LOCALAPPDATA")))
    ELSE UnderHome(e, Str(".cache"))

\* UserDataPath as it would be if it fell back to the home directory on
\* Windows as well
UserDataPath_fallingBack(e, d) ==
    IF Get(e, d, IF e.goos = "windows" THEN "LOCALAPPDATA" ELSE "XDG_DATA_HOME")
          /= EmptyStr
    THEN PathOk(Clean(IF e.goos = "windows"
                      THEN Join(Get(e, d, "LOCALAPPDATA"), Str("data"))
                      ELSE Get(e, d, "XDG_DATA_HOME")))
    ELSE UnderHome(e, Relative(<<".local", "share">>))

UserDataPath(e, d) ==
    IF e.goos = "windows"
    THEN IF Get(e, d, "LOCALAPPDATA") /= EmptyStr
         THEN PathOk(Clean(Join(Get(e, d, "LOCALAPPDATA"), Str("data"))))
         ELSE NoEnvKeyErr
    ELSE IF Get(e, d, "XDG_DATA_HOME") /= EmptyStr
         THEN PathOk(Clean(Get(e, d, "XDG_DATA_HOME")))
    ELSE UnderHome(e, Relative(<<".local", "share">>))

UserStatePath(e, d) ==
    IF e.goos = "windows"
    THEN IF Get(e, d, "LOCALAPPDATA") /= EmptyStr
         THEN PathOk(Join(Get(e, d, "LOCALAPPDATA"), Str("state")))
         ELSE NoEnvKeyErr
    ELSE IF Get(e, d, "XDG_STATE_HOME") /= EmptyStr
         THEN PathOk(Get(e, d, "XDG_STATE_HOME"))
    ELSE UnderHome(e, Relative(<<".local", "state">>))

UserPathFns == {"UserConfigPath", "UserCachePath", "UserDataPath", "UserStatePath"}

UserPath(fn, e, d) ==
    IF fn = "UserConfigPath" THEN UserConfigPath(e, d)
    ELSE IF fn = "UserCachePath" THEN UserCachePath(e, d)
    ELSE IF fn = "UserDataPath" THEN UserDataPath(e, d)
    ELSE UserStatePath(e, d)

\* the variables the four functions read
PlatformKeys ==
    {"XDG_CONFIG_HOME", "XDG_CACHE_HOME", "XDG_DATA_HOME", "XDG_STATE_HOME",
     "APPDATA", "LOCALAPPDATA"}

\* values given to them: empty, and a path that is not clean
PlatformValues == {EmptyStr, Rooted(<<"real", ".", "xdg">>)}

\* fn(ctx) with TestEnv i in the context; seen and home are what the
\* environment held when the call was made
CallUserPath(i, fn) ==
    /\ Live(i)
    /\ jailRes' = [op |-> fn, arg |-> EmptyStr,
                   path |-> UserPath(fn, envs[i], DataOf(i)).val,
                   ok |-> ~UserPath(fn, envs[i], DataOf(i)).err,
                   wraps |-> UserPath(fn, envs[i], DataOf(i)).wraps,
                   goos |-> envs[i].goos,
                   seen |-> [k \in PlatformKeys |-> Get(envs[i], DataOf(i), k)],
                   home |-> GetHome(envs[i])]
    /\ UNCHANGED <<jailArg, pathArg, envVars, pipeVars, fileVars>>

InitPlatform ==
    /\ \E goos \in Platforms, impl \in Impls :
          LET r == OnPlatform(goos, NewTestEnv(impl, EmptyStr, Rooted(<<"h">>),
                                               Str("alice"), 1))
          IN /\ envs = [i \in {1, 2} |-> IF i = 1 THEN r.env ELSE NilEnv]
             /\ heap = [m \in {1, 2} |-> IF m = 1 THEN r.map ELSE EmptyMap]
    /\ osenv = EmptyMap
    /\ JailIdle
    /\ PipeIdle
    /\ FileIdle

\* the environment is arranged with Set and Unset, then one function is called
NextPlatform ==
    \/ \E fn \in UserPathFns : jailRes.op = "none" /\ CallUserPath(1, fn)
    \/ \E k \in PlatformKeys, v \in PlatformValues :
          jailRes.op = "none" /\ TestEnvSet(1, k, v, "plain")
    \/ \E k \in PlatformKeys \cup {"HOME"} :
          jailRes.op = "none" /\ TestEnvUnset(1, k)

SpecPlatform == InitPlatform /\ [][NextPlatform]_vars

\* on a Unix-like system: the variable that overrides each directory and the
\* conventional place under the home directory
OverrideKey(fn) ==
    IF fn = "UserConfigPath" THEN "XDG_CONFIG_HOME"
    ELSE IF fn = "UserCachePath" THEN "XDG_CACHE_HOME"
    ELSE IF fn = "UserDataPath" THEN "XDG_DATA_HOME"
    ELSE "XDG_STATE_HOME"

HomeSubpath(fn) ==
    IF fn = "UserConfigPath" THEN Str(".config")
    ELSE IF fn = "UserCachePath" THEN Str(".cache")
    ELSE IF fn = "UserDataPath" THEN Relative(<<".local", "share">>)
    ELSE Relative(<<".local", "state">>)

\* C24: each of the four functions returns the value of its override variable
\* (the path it names) when that is set and non-empty, otherwise the
\* conventional subpath under the home directory, and an error when the
\* override is absent and no home directory is available.
C24_OverrideThenHome ==
    (jailRes.op \in UserPathFns /\ jailRes.goos = "linux") =>
        IF jailRes.seen[OverrideKey(jailRes.op)] /= EmptyStr
        THEN /\ jailRes.ok
             /\ Clean(jailRes.path) = Clean(jailRes.seen[OverrideKey(jailRes.op)])
        ELSE IF ~jailRes.home.err
             THEN /\ jailRes.ok
                  /\ jailRes.path = Join(jailRes.home.val, HomeSubpath(jailRes.op))
             ELSE ~jailRes.ok

C37_LocalAppDataIgnoredOnUnix ==
    (jailRes.op = "UserCachePath" /\ jailRes.goos = "linux" /\ ~jailRes.home.err) =>
        /\ jailRes.ok
        /\ Clean(jailRes.path) =
              IF jailRes.seen["XDG_CACHE_HOME"] /= EmptyStr
              THEN Clean(jailRes.seen["XDG_CACHE_HOME"])
              ELSE Join(jailRes.home.val, Str(".cache"))

(***************************************************************************)
(* NewTestEnv(jail, home, username) and what the new TestEnv reports       *)
(***************************************************************************)

\* usernames handed to NewTestEnv
NewUsers == InitUsers \cup {Str("bob")}

\* jailArg and pathArg hold the jail and the username NewTestEnv was given,
\* jailRes.homeArg the home it was given
InitNew ==
    /\ \E impl \in Impls, home \in InitHomes :
          LET r == NewTestEnv(impl, jailArg, home, pathArg, 1)
          IN /\ jailArg \in EnvJails
             /\ pathArg \in NewUsers
             /\ envs = [i \in {1, 2} |-> IF i = 1 THEN r.env ELSE NilEnv]
             /\ heap = [m \in {1, 2} |-> IF m = 1 THEN r.map ELSE EmptyMap]
             /\ jailRes = [op |-> "none", arg |-> EmptyStr, path |-> EmptyStr,
                           ok |-> FALSE, homeArg |-> home]
    /\ osenv = EmptyMap
    /\ PipeIdle
    /\ FileIdle

TestEnvGetUser(i) ==
    /\ Live(i)
    /\ jailRes' = [op |-> "GetUser", arg |-> EmptyStr,
                   path |-> GetUser(envs[i]).val, ok |-> ~GetUser(envs[i]).err,
                   homeArg |-> jailRes.homeArg]
    /\ UNCHANGED <<jailArg, pathArg, envVars, pipeVars, fileVars>>

TestEnvGet(i, key) ==
    /\ Live(i)
    /\ jailRes' = [op |-> "Get", arg |-> EmptyStr, key |-> key,
                   path |-> Get(envs[i], DataOf(i), key), ok |-> TRUE,
                   homeArg |-> jailRes.homeArg]
    /\ UNCHANGED <<jailArg, pathArg, envVars, pipeVars, fileVars>>

NextNew ==
    \/ TestEnvGetUser(1)
    \/ \E key \in {"USER", "HOME", "PWD", "TMPDIR"} : TestEnvGet(1, key)

SpecNew == InitNew /\ [][NextNew]_vars

\* C26: NewTestEnv called with an empty username uses the default username
\* "testuser": GetUser returns "testuser" without error and Get("USER")
\* returns "testuser".
C26_DefaultUsername ==
    pathArg = EmptyStr =>
        /\ jailRes.op = "GetUser" => jailRes.ok /\ jailRes.path = Str("testuser")
        /\ (jailRes.op = "Get" /\ jailRes.key = "USER")
              => jailRes.path = Str("testuser")

\* the home NewTestEnv documents for a user: /home/<user>, /.root for root
DefaultHome(username) ==
    IF username = Str("root") THEN Rooted(<<".root">>)
    ELSE Join(Rooted(<<"home">>),
              IF username = EmptyStr THEN Str("testuser") ELSE username)

\* C36: NewTestEnv with an empty home computes the home as /home/<user>, or
\* /.root when the user is "root", confined to the jail, and for every user,
\* root included, the initial working directory equals that home.
C36_DefaultHomeIsWorkingDirectory ==
    jailRes.homeArg = EmptyStr =>
        /\ ~GetHome(envs[1]).err
        /\ PlaceOf(envs[1], GetHome(envs[1]).val)
              = JailLocation(jailArg, DefaultHome(pathArg))
        /\ Getwd(envs[1], DataOf(1)) = GetHome(envs[1])


(***************************************************************************)
(* Process.Write and Process.Close against a concurrent Process.Run: one   *)
(* goroutine runs Process.Run, another writes n chunks of one byte (chunk  *)
(* k is the number k) and then closes.  stdin holds the Process's p.in     *)
(* (in), its stdinW (w), the reader Run handed to the runner (src), the    *)
(* chunk a blocked Write on the io.Pipe is offering (pending), what the    *)
(* runner has read (log) and where the two goroutines stand (rpc, wpc).    *)
(***************************************************************************)
MaxWrites == 3       \* most chunks the writer sends before Close

StdinRunners == {"all", "one"}   \* reads to EOF / reads one chunk and returns

NewStdin(r, n) ==
    [runner |-> r, n |-> n, rpc |-> "start", in |-> "nil", src |-> "none",
     w |-> "nil", pending |-> <<>>, log |-> <<>>, eof |-> FALSE,
     wpc |-> "idle", sent |-> 0, werr |-> FALSE, piped |-> FALSE]

InitStdin ==
    /\ stdin \in {NewStdin(r, n) : r \in StdinRunners, n \in 0..MaxWrites}
    /\ stages = <<>>
    /\ ppc = "idle"
    /\ proc = <<>>
    /\ pipe = <<>>
    /\ errCh = <<>>
    /\ result = <<>>
    /\ ctx = Background
    /\ spipe = <<>>
    /\ JailIdle
    /\ EnvIdle
    /\ FileIdle

StdinUnchanged ==
    UNCHANGED <<stages, ppc, proc, pipe, errCh, result, ctx, spipe, jailVars,
                envVars, fileVars>>

\* Process.Write: under the lock make the pipe on the first call and store
\* its read end in p.in; then w.Write, which fails on a closed pipe and
\* otherwise offers the chunk until a Read takes it
ProcessWrite ==
    /\ stdin.wpc = "idle"
    /\ stdin.sent < stdin.n
    /\ IF stdin.w = "closed"
       THEN stdin' = [stdin EXCEPT !.sent = @ + 1, !.werr = TRUE]
       ELSE stdin' = [stdin EXCEPT !.w = "open", !.in = "pipe",
                                   !.pending = <<stdin.sent + 1>>,
                                   !.wpc = "writing"]
    /\ StdinUnchanged

\* w.Write returns: the chunk was taken, or the write end was closed under it
ProcessWriteReturn ==
    /\ stdin.wpc = "writing"
    /\ \/ /\ stdin.pending = <<>>
          /\ stdin' = [stdin EXCEPT !.sent = @ + 1, !.wpc = "idle"]
       \/ /\ stdin.pending /= <<>>
          /\ stdin.w = "closed"
          /\ stdin' = [stdin EXCEPT !.sent = @ + 1, !.wpc = "idle",
                                    !.pending = <<>>, !.werr = TRUE]
    /\ StdinUnchanged

\* Process.Close, after the last Write: closes stdinW when there is one
ProcessClose ==
    /\ stdin.wpc = "idle"
    /\ stdin.sent = stdin.n
    /\ stdin' = [stdin EXCEPT !.wpc = "closed",
                              !.w = IF @ = "open" THEN "closed" ELSE @]
    /\ StdinUnchanged

\* the reader Process.Run hands to the runner: p.in, an empty reader when
\* p.in is nil
StdinSource == IF stdin.in = "nil" THEN "empty" ELSE "pipe"

\* Process.Run, stdin setup under the lock (in := p.in, or the empty
\* reader), and the Stream built from it: IsPiped is in != nil, tested
\* after the substitution
ProcessRunStdinSetup ==
    /\ stdin.rpc = "start"
    /\ stdin' = [stdin EXCEPT !.rpc = "running",
                              !.src = StdinSource,
                              !.piped = StdinSource /= "nil"]
    /\ StdinUnchanged

\* the runner reads s.In: the empty reader gives EOF at once; the pipe gives
\* EOF once its write end is closed, else the chunk on offer
RunnerReadStdin ==
    /\ stdin.rpc = "running"
    /\ ~stdin.eof
    /\ stdin.runner = "all" \/ stdin.log = <<>>
    /\ IF stdin.src = "empty" \/ stdin.w = "closed"
       THEN stdin' = [stdin EXCEPT !.eof = TRUE]
       ELSE /\ stdin.pending /= <<>>
            /\ stdin' = [stdin EXCEPT !.log = @ \o stdin.pending,
                                      !.pending = <<>>]
    /\ StdinUnchanged

\* the runner returns: at EOF, or after its one chunk
RunnerReturnStdin ==
    /\ stdin.rpc = "running"
    /\ stdin.eof \/ (stdin.runner = "one" /\ stdin.log /= <<>>)
    /\ stdin' = [stdin EXCEPT !.rpc = "returned"]
    /\ StdinUnchanged

\* Process.Run after the runner: close stdinW when there is one
ProcessRunStdinClose ==
    /\ stdin.rpc = "returned"
    /\ stdin' = [stdin EXCEPT !.rpc = "done",
                              !.w = IF @ = "open" THEN "closed" ELSE @]
    /\ StdinUnchanged

NextStdin ==
    \/ ProcessWrite
    \/ ProcessWriteReturn
    \/ ProcessClose
    \/ ProcessRunStdinSetup
    \/ RunnerReadStdin
    \/ RunnerReturnStdin
    \/ ProcessRunStdinClose

SpecStdin == InitStdin /\ [][NextStdin]_vars

\* the chunks the writer sends, in write order
ChunksWritten == [k \in 1..stdin.n |-> k]

\* C33: the Stream that Process.Run passes to the runner has IsPiped true
\* exactly when an explicit input source was configured; it is false when
\* Run substituted the default empty source.
C33_IsPipedIffConfigured ==
    stdin.rpc /= "start" => (stdin.piped <=> stdin.src = "pipe")

\* C30: every byte written through Process.Write before Process.Close is
\* read by the runner, in write order, and the runner then sees end of input,
\* however the first Write interleaves with the start of Process.Run: a
\* runner that read to the end of its input has read every chunk.
C30_RunnerReadsEveryWrite ==
    (stdin.runner = "all" /\ stdin.rpc \in {"returned", "done"}) =>
        stdin.eof /\ stdin.log = ChunksWritten


(***************************************************************************)
(* Pipeline.RunWithTimeout: Pipeline.Run under context.WithTimeout.  The   *)
(* deadline may pass at any moment before the stages have all finished;    *)
(* the context reaches the runners only, and a runner that heeds it        *)
(* returns ctx.Err() when it next looks.                                   *)
(***************************************************************************)
DeadlineExceeded == "context deadline exceeded"

TimeoutRunners ==
    {NilRunner,
     [reads |-> "none", writes |-> 1, ewrites |-> 0, fail |-> FALSE,
      exit |-> 0, heeds |-> FALSE],
     [reads |-> "all", writes |-> 1, ewrites |-> 0, fail |-> FALSE,
      exit |-> 0, heeds |-> TRUE],
     [reads |-> "all", writes |-> 0, ewrites |-> 1, fail |-> TRUE,
      exit |-> 1, heeds |-> FALSE]}

InitTimeout ==
    /\ stages \in SeqsUpTo([runner : TimeoutRunners, captured : {FALSE}], NumStages)
    /\ ppc = "new"
    /\ proc = [i \in 1..Len(stages) |-> NewProc]
    /\ pipe = [i \in 1..Len(stages) |-> NewPipe]
    /\ errCh = <<>>
    /\ result = NoPipelineResult
    /\ stdin = <<>>
    /\ ctx = Background
    /\ spipe = <<>>
    /\ JailIdle
    /\ EnvIdle
    /\ FileIdle

\* the timer of context.WithTimeout fires while some stage has not finished
DeadlineElapses ==
    /\ ppc \in {"new", "waiting"}
    /\ ~ctx.done
    /\ \E i \in 1..N : proc[i].pc /= "done"
    /\ ctx' = [done |-> TRUE, late |-> {i \in 1..N : proc[i].pc /= "done"}]
    /\ UNCHANGED <<stages, ppc, proc, pipe, errCh, result, stdin, spipe,
                   jailVars, envVars, fileVars>>

\* a runner that heeds its context finds it done and returns ctx.Err()
RunnerCancelled(i) ==
    /\ Running(i)
    /\ proc[i].pc = "running"
    /\ stages[i].runner.heeds
    /\ ctx.done
    /\ proc' = [proc EXCEPT ![i].pc = "returned", ![i].reading = FALSE,
                            ![i].err = <<DeadlineExceeded>>, ![i].code = 1]
    /\ UNCHANGED <<stages, ppc, pipe, errCh, result, stdin, ctx, spipe, jailVars,
                   envVars, fileVars>>

NextTimeout ==
    \/ NextPipe
    \/ DeadlineElapses
    \/ \E i \in 1..N : RunnerCancelled(i)

SpecTimeout == InitTimeout /\ [][NextTimeout]_vars

\* C31: if the deadline elapses before the pipeline's stages have completed,
\* the result returned by RunWithTimeout has an Err that contains
\* context.DeadlineExceeded.
C31_DeadlineReported ==
    (result.returned /\ ctx.done) =>
        \E k \in 1..Len(result.err) : result.err[k] = DeadlineExceeded

\* C32: RunWithTimeout never returns before every stage's runner has
\* returned, also when the deadline has passed while a runner that ignores
\* the context was still running.
C32_ReturnsAfterEveryStage ==
    result.returned => \A i \in 1..N : proc[i].pc = "done"

C32_Witness ==
    /\ result.returned
    /\ ctx.done
    /\ \E i \in ctx.late :
          /\ ~stages[i].runner.heeds
          /\ stages[i].runner /= NilRunner
          /\ proc[i].pc = "done"
          /\ proc[i].err = <<>>


(***************************************************************************)
(* Process.StdoutPipe called from several goroutines on one Process.  A    *)
(* call locks p.mu, tests p.stdoutPipe against nil, makes the pipe when    *)
(* it is nil, and returns p.stdoutPipe as the deferred Unlock runs.        *)
(* spipe.reader is p.stdoutPipe (0 is nil, k the k-th pipe made), mu the   *)
(* goroutine holding p.mu (0: free), and per goroutine pc, what its test   *)
(* saw, and the readers its calls have returned.                           *)
(***************************************************************************)
NumCallers == 3      \* goroutines calling StdoutPipe
MaxCalls == 2        \* calls each of them makes

Callers == 1..NumCallers

InitStdoutPipe ==
    /\ spipe = [reader |-> 0, made |-> 0, mu |-> 0,
                pc |-> [c \in Callers |-> "idle"],
                sawNil |-> [c \in Callers |-> FALSE],
                got |-> [c \in Callers |-> <<>>]]
    /\ stages = <<>>
    /\ ppc = "idle"
    /\ proc = <<>>
    /\ pipe = <<>>
    /\ errCh = <<>>
    /\ result = <<>>
    /\ stdin = <<>>
    /\ ctx = Background
    /\ JailIdle
    /\ EnvIdle
    /\ FileIdle

StdoutPipeUnchanged ==
    UNCHANGED <<stages, ppc, proc, pipe, errCh, result, stdin, ctx, jailVars,
                envVars, fileVars>>

\* StdoutPipeLock as it would be without the mutex
StdoutPipeLock_noMutex(c) ==
    /\ spipe.pc[c] = "idle"
    /\ Len(spipe.got[c]) < MaxCalls
    /\ spipe' = [spipe EXCEPT !.pc[c] = "locked"]
    /\ StdoutPipeUnchanged

\* p.mu.Lock(): waits while another goroutine holds the mutex
StdoutPipeLock(c) ==
    /\ spipe.pc[c] = "idle"
    /\ Len(spipe.got[c]) < MaxCalls
    /\ spipe.mu = 0
    /\ spipe' = [spipe EXCEPT !.pc[c] = "locked", !.mu = c]
    /\ StdoutPipeUnchanged

\* if p.stdoutPipe == nil
StdoutPipeTest(c) ==
    /\ spipe.pc[c] = "locked"
    /\ spipe' = [spipe EXCEPT !.pc[c] = "tested",
                              !.sawNil[c] = spipe.reader = 0]
    /\ StdoutPipeUnchanged

\* p.stdoutPipe, p.stdoutW = io.Pipe(), when the test saw nil
StdoutPipeMake(c) ==
    /\ spipe.pc[c] = "tested"
    /\ spipe.sawNil[c]
    /\ spipe' = [spipe EXCEPT !.pc[c] = "made", !.reader = spipe.made + 1,
                              !.made = @ + 1]
    /\ StdoutPipeUnchanged

\* return p.stdoutPipe, and the deferred p.mu.Unlock()
StdoutPipeReturn(c) ==
    /\ \/ spipe.pc[c] = "made"
       \/ spipe.pc[c] = "tested" /\ ~spipe.sawNil[c]
    /\ spipe' = [spipe EXCEPT !.pc[c] = "idle",
                              !.got[c] = Append(@, spipe.reader),
                              !.mu = IF @ = c THEN 0 ELSE @]
    /\ StdoutPipeUnchanged

NextStdoutPipe ==
    \/ \E c \in Callers : StdoutPipeLock(c)
    \/ \E c \in Callers : StdoutPipeTest(c)
    \/ \E c \in Callers : StdoutPipeMake(c)
    \/ \E c \in Callers : StdoutPipeReturn(c)

SpecStdoutPipe == InitStdoutPipe /\ [][NextStdoutPipe]_vars

\* C34: Process.StdoutPipe creates at most one pipe per process: the first
\* call creates it and every later call, calls made concurrently from
\* several goroutines included, returns the same reader.
C34_OnePipePerProcess ==
    /\ spipe.made <= 1
    /\ \A c \in Callers :
          \A k \in 1..Len(spipe.got[c]) : spipe.got[c][k] = 1

C34_Witness ==
    /\ spipe.made = 1
    /\ \A c \in Callers : Len(spipe.got[c]) = MaxCalls


(***************************************************************************)
(* Exit codes: runners whose exit code and error do not go together.       *)
(***************************************************************************)
ExitRunners ==
    {NilRunner,
     [reads |-> "none", writes |-> 1, ewrites |-> 1, fail |-> FALSE,
      exit |-> 2, heeds |-> FALSE],
     [reads |-> "all", writes |-> 0, ewrites |-> 0, fail |-> TRUE,
      exit |-> 0, heeds |-> FALSE],
     [reads |-> "all", writes |-> 1, ewrites |-> 0, fail |-> FALSE,
      exit |-> 0, heeds |-> FALSE]}

InitExit ==
    /\ stages \in SeqsUpTo([runner : ExitRunners, captured : {FALSE}], NumStages)
    /\ ppc = "new"
    /\ proc = [i \in 1..Len(stages) |-> NewProc]
    /\ pipe = [i \in 1..Len(stages) |-> NewPipe]
    /\ errCh = <<>>
    /\ result = NoPipelineResult
    /\ stdin = <<>>
    /\ ctx = Background
    /\ spipe = <<>>
    /\ JailIdle
    /\ EnvIdle
    /\ FileIdle

SpecExit == InitExit /\ [][NextPipe]_vars

\* C38: a result never reports exit code 0 together with a failure: a
\* ProcessResult with a non-nil Err has a non-zero ExitCode, and when any
\* stage's runner returned a non-zero exit code the Pipeline result's
\* ExitCode is non-zero.
C38_NoZeroExitOnFailure ==
    /\ \A i \in 1..N :
          (proc[i].pc = "done" /\ proc[i].err /= <<>>) => proc[i].code /= 0
    /\ (result.returned /\ \E i \in 1..N : proc[i].code /= 0)
          => result.code /= 0


(***************************************************************************)
(* TestEnv.Set and TestEnv.Unset on the keys without a dedicated field.    *)
(* jailRes records the last call: its key, its value, and the view of the  *)
(* TestEnv before it.                                                      *)
(***************************************************************************)
PlainKeys == {"K", "TMPDIR"}
PlainValues == {EmptyStr, Str("a")}

CallSet(i, key, value) ==
    /\ Live(i)
    /\ Apply(i, Set(envs[i], DataOf(i), key, value, "plain"))
    /\ jailRes' = [op |-> "Set", arg |-> value, key |-> key, path |-> EmptyStr,
                   ok |-> TRUE, before |-> EnvView(i)]
    /\ UNCHANGED <<jailArg, pathArg, osenv, pipeVars, fileVars>>

CallUnset(i, key) ==
    /\ Live(i)
    /\ Apply(i, Unset(envs[i], DataOf(i), key))
    /\ jailRes' = [op |-> "Unset", arg |-> EmptyStr, key |-> key,
                   path |-> EmptyStr, ok |-> TRUE, before |-> EnvView(i)]
    /\ UNCHANGED <<jailArg, pathArg, osenv, pipeVars, fileVars>>

NextKeys ==
    \/ \E k \in PlainKeys, v \in PlainValues : CallSet(1, k, v)
    \/ \E k \in PlainKeys : CallUnset(1, k)

SpecKeys == InitEnv /\ [][NextKeys]_vars

\* what the call recorded in jailRes left alone: every other key, and the
\* jail, home and user (the working directory is the key PWD)
RestUnchanged ==
    /\ \A k \in AllKeys \ {jailRes.key} :
          EnvView(1).vars[k] = jailRes.before.vars[k]
    /\ EnvView(1).jail = jailRes.before.jail
    /\ EnvView(1).home = jailRes.before.home
    /\ EnvView(1).user = jailRes.before.user
    /\ Getwd(envs[1], DataOf(1)).val = jailRes.before.vars["PWD"][1]

\* C39: for every key other than HOME, USER and PWD: after Set(k, v), Get(k)
\* returns v and Has(k) is true, also when v is empty; after Unset(k), Has(k)
\* is false and Get(k) returns the empty string; and neither operation
\* changes the presence or value of any other key, nor the home, user or
\* working directory.
C39_PlainKeysSetAndUnset ==
    /\ jailRes.op = "Set" =>
          /\ Get(envs[1], DataOf(1), jailRes.key) = jailRes.arg
          /\ Has(DataOf(1), jailRes.key)
          /\ RestUnchanged
    /\ jailRes.op = "Unset" =>
          /\ Get(envs[1], DataOf(1), jailRes.key) = EmptyStr
          /\ ~Has(DataOf(1), jailRes.key)
          /\ RestUnchanged

C39_Witness ==
    /\ jailRes.op = "Set"
    /\ jailRes.arg = EmptyStr
    /\ jailRes.key = "K"
    /\ jailRes.before.vars["K"] = <<Str("a"), TRUE>>
    /\ Has(DataOf(1), "TMPDIR")

====
